---------------------------- MODULE Spec2Model ----------------------------
(***************************************************************************)
(* A model of the compile-time dimensional-analysis library `units`:       *)
(*   - include/units/core/ratio.hpp          exact rationals              *)
(*   - include/units/core/quantity_spec.hpp  hierarchy of quantity kinds  *)
(*   - include/units/core/unit.hpp           units and magnitudes         *)
(*   - include/units/core/reference.hpp      (spec, unit) references      *)
(*   - include/units/core/quantity.hpp       quantities                   *)
(*                                                                         *)
(* The library is a set of pure functions evaluated by the compiler, so    *)
(* each specification below draws operands in Init and applies one         *)
(* operation per step, recording operands and result in the state.         *)
(*                                                                         *)
(* Integers of type ratio_int_t are modelled with IntBits bits.  Every     *)
(* ratio computation is a constant expression: an arithmetic overflow, a   *)
(* division by zero, a `throw` or a failed static_assert in it makes the   *)
(* program ill-formed.  The value NotConstant stands for that outcome and  *)
(* is absorbing for every integer operation.                               *)
(***************************************************************************)
EXTENDS Integers, Sequences, FiniteSets, TLC

\* Width in bits of ratio_int_t in the model (the source uses 64 or 128).
IntBits == 3

\* Exponents of ratio_power range over -MaxExp .. MaxExp.
MaxExp == 2

\* Number of named quantity specs declared in a hierarchy.
NumSpecs == 4

\* Scaled units have magnitudes n and 1/n for n in 1 .. MaxScale.
MaxScale == 3

VARIABLES
    ra,     \* left ratio operand  (R1)
    rb,     \* right ratio operand (R2)
    rexp,   \* exponent handed to ratio_power
    rop,    \* the ratio operation applied last
    rres,   \* its result
    rnum,   \* template argument Num of the last ratio<Num, Den> written out
    rden,   \* template argument Den of the last ratio<Num, Den> written out
    parent_spec,  \* the declared quantity specs: spec |-> its parent_spec
    kfrom,  \* first quantity spec handed to a predicate  (From, Child, Q1)
    kto,    \* second quantity spec handed to a predicate (To, Parent, Q2)
    kop,    \* the predicate or trait evaluated last
    kres,   \* its value
    q1,     \* left operand / destination type of a quantity expression
    q2,     \* right operand / source of a quantity expression
    qop,    \* the quantity expression written last
    qres,   \* what the compiler and the program made of it
    ua,     \* left unit of a unit expression  (Self, FromUnit)
    ub,     \* right unit of a unit expression (Other, ToUnit)
    uop,    \* the unit expression written last
    ures,   \* the unit or the factor it names, if it can be instantiated
    ofrom,  \* first origin handed to an origin utility  (Origin, FromOrigin)
    oto,    \* second origin handed to an origin utility (ToOrigin)
    oref,   \* the caller's reference (Ref)
    orep,   \* the caller's representation (Rep)
    oop,    \* the origin utility used last
    ores,   \* the type or the quantity it names, if it can be instantiated
    pa,     \* left operand of an expression over points (a point or a quantity)
    pb,     \* right operand (a point or a quantity)
    pop,    \* the expression written last
    pres,   \* its outcome
    tp,     \* a temperature point handed to a conversion
    top,    \* the conversion written last
    tres    \* its outcome

ratio_vars == <<ra, rb, rexp, rop, rres, rnum, rden>>

kind_vars == <<parent_spec, kfrom, kto, kop, kres>>

qty_vars == <<q1, q2, qop, qres>>

unit_vars == <<ua, ub, uop, ures>>

origin_vars == <<ofrom, oto, oref, orep, oop, ores>>

point_vars == <<pa, pb, pop, pres>>

temp_vars == <<tp, top, tres>>

vars == <<ra, rb, rexp, rop, rres, rnum, rden,
          parent_spec, kfrom, kto, kop, kres,
          q1, q2, qop, qres,
          ua, ub, uop, ures,
          ofrom, oto, oref, orep, oop, ores,
          pa, pb, pop, pres,
          tp, top, tres>>

\* The variables of the other parts of the library, which a step leaves alone.
beside_ratio ==
    <<kind_vars, qty_vars, unit_vars, origin_vars, point_vars, temp_vars>>

beside_kind ==
    <<ratio_vars, qty_vars, unit_vars, origin_vars, point_vars, temp_vars>>

beside_qty ==
    <<ratio_vars, kind_vars, unit_vars, origin_vars, point_vars, temp_vars>>

beside_unit ==
    <<ratio_vars, kind_vars, qty_vars, origin_vars, point_vars, temp_vars>>

beside_origin ==
    <<ratio_vars, kind_vars, qty_vars, unit_vars, point_vars, temp_vars>>

beside_temp ==
    <<ratio_vars, kind_vars, qty_vars, unit_vars, origin_vars, point_vars>>

beside_point ==
    <<ratio_vars, kind_vars, qty_vars, unit_vars, origin_vars, temp_vars>>

---------------------------------------------------------------------------
(* ratio_limits<ratio_int_t> and constant evaluation of integer arithmetic *)

max_val == 2 ^ (IntBits - 1) - 1

min_val == -(2 ^ (IntBits - 1))

\* The outcome "not a constant expression": the build fails.
NotConstant == min_val - 1

Representable(x) == x >= min_val /\ x <= max_val

\* The value of an integer expression whose mathematical result is x.
Evaluated(x) == IF Representable(x) THEN x ELSE NotConstant

Magnitude(x) == IF x < 0 THEN -x ELSE x

\* C++ integer division truncates toward zero.
TruncDiv(a, b) ==
    IF (a < 0) = (b < 0) THEN Magnitude(a) \div Magnitude(b)
    ELSE -(Magnitude(a) \div Magnitude(b))

\* Built-in unary minus.
Neg(a) == IF a = NotConstant THEN NotConstant ELSE Evaluated(-a)

\* Built-in a * b.
Mul(a, b) ==
    IF a = NotConstant \/ b = NotConstant THEN NotConstant ELSE Evaluated(a * b)

\* Built-in a + b.
Add(a, b) ==
    IF a = NotConstant \/ b = NotConstant THEN NotConstant ELSE Evaluated(a + b)

\* Built-in a - b.
Sub(a, b) ==
    IF a = NotConstant \/ b = NotConstant THEN NotConstant ELSE Evaluated(a - b)

\* Built-in a / b.
Div(a, b) ==
    IF a = NotConstant \/ b = NotConstant \/ b = 0 THEN NotConstant
    ELSE Evaluated(TruncDiv(a, b))

\* Built-in a % b (the sign of the result follows the dividend).
Mod(a, b) ==
    IF a = NotConstant \/ b = NotConstant \/ b = 0 THEN NotConstant
    ELSE Evaluated(a - b * TruncDiv(a, b))

---------------------------------------------------------------------------
(* detail:: arithmetic utilities                                           *)

abs(value) ==
    IF value = NotConstant THEN NotConstant
    ELSE IF value < 0 THEN Neg(value) ELSE value

sign(value) ==
    IF value = NotConstant THEN NotConstant
    ELSE (IF value > 0 THEN 1 ELSE 0) - (IF value < 0 THEN 1 ELSE 0)

RECURSIVE gcd_loop(_, _)
gcd_loop(a, b) ==
    IF a = NotConstant \/ b = NotConstant THEN NotConstant
    ELSE IF b # 0 THEN gcd_loop(b, Mod(a, b))
    ELSE a

gcd(a, b) == gcd_loop(abs(a), abs(b))

lcm(a, b) ==
    IF a = NotConstant \/ b = NotConstant THEN NotConstant
    ELSE IF a = 0 \/ b = 0 THEN 0
    ELSE Mul(Div(abs(a), gcd(a, b)), abs(b))

\* mul_overflow that compares the magnitudes of a and b with max_val.
mul_overflow_by_magnitude(a, b) ==
    IF a = 0 \/ b = 0 THEN FALSE
    ELSE abs(a) > Div(max_val, abs(b))

mul_overflow(a, b) ==
    IF a = 0 \/ b = 0 THEN FALSE
    ELSE IF a > 0
         THEN IF b > 0 THEN a > Div(max_val, b) ELSE b < Div(min_val, a)
         ELSE IF b > 0 THEN a < Div(min_val, b)
              ELSE a # 0 /\ b < Div(max_val, a)

add_overflow(a, b) ==
    \/ b > 0 /\ a > Sub(max_val, b)
    \/ b < 0 /\ a < Sub(min_val, b)

\* The quotient that the branch of mul_overflow taken for a and b divides
\* out (a and b are not 0).
mul_overflow_quotient(a, b) ==
    IF a > 0
    THEN IF b > 0 THEN Div(max_val, b) ELSE Div(min_val, a)
    ELSE IF b > 0 THEN Div(min_val, b) ELSE Div(max_val, a)

\* The differences that add_overflow forms for a and b: the right operand
\* of each && is evaluated only when the left one is true.
add_overflow_differences(a, b) ==
    (IF b > 0 THEN {Sub(max_val, b)} ELSE {})
        \cup (IF b < 0 THEN {Sub(min_val, b)} ELSE {})

\* A multiplication that wraps modulo 2^IntBits instead of failing.
safe_mul_wrapping(a, b) ==
    IF a = NotConstant \/ b = NotConstant THEN NotConstant
    ELSE ((a * b - min_val) % (2 ^ IntBits)) + min_val

safe_mul(a, b) ==
    IF a = NotConstant \/ b = NotConstant THEN NotConstant
    ELSE IF mul_overflow(a, b) THEN NotConstant
    ELSE Mul(a, b)

\* An addition that wraps modulo 2^IntBits instead of failing.
safe_add_wrapping(a, b) ==
    IF a = NotConstant \/ b = NotConstant THEN NotConstant
    ELSE ((a + b - min_val) % (2 ^ IntBits)) + min_val

safe_add(a, b) ==
    IF a = NotConstant \/ b = NotConstant THEN NotConstant
    ELSE IF add_overflow(a, b) THEN NotConstant
    ELSE Add(a, b)

\* The loop of power(): square-and-multiply over the bits of exp.
RECURSIVE power_loop(_, _, _)
power_loop(result, base, exp) ==
    IF exp > 0
    THEN LET result1 == IF exp % 2 # 0 THEN safe_mul(result, base) ELSE result
             base1   == IF exp > 1 THEN safe_mul(base, base) ELSE base
         IN  power_loop(result1, base1, exp \div 2)
    ELSE result

power(base, exp) ==
    IF base = NotConstant \/ exp = NotConstant THEN NotConstant
    ELSE IF exp < 0 THEN NotConstant
    ELSE IF exp = 0 THEN 1
    ELSE power_loop(1, base, exp)

---------------------------------------------------------------------------
(* ratio<Num, Den>: a ratio is the record of its members num and den       *)

\* A ratio whose instantiation is ill-formed.
Failed == [num |-> NotConstant, den |-> NotConstant]

\* ratio<Num, Den> without the division by gcd_val.
ratio_unreduced(Num, Den) ==
    IF Num = NotConstant \/ Den = NotConstant \/ Den = 0 THEN Failed
    ELSE LET num == Mul(sign(Den), Num)
             den == abs(Den)
         IN  IF num = NotConstant \/ den = NotConstant THEN Failed
             ELSE [num |-> num, den |-> den]

\* ratio<Num, Den> without the static_assert on Den.
ratio_unchecked(Num, Den) ==
    IF Num = NotConstant \/ Den = NotConstant THEN Failed
    ELSE LET gcd_val  == gcd(Num, Den)
             sign_val == sign(Den)
             num      == Div(Mul(sign_val, Num), gcd_val)
             den      == Div(abs(Den), gcd_val)
         IN  IF num = NotConstant \/ den = NotConstant THEN Failed
             ELSE [num |-> num, den |-> den]

ratio(Num, Den) ==
    IF Num = NotConstant \/ Den = NotConstant \/ Den = 0 THEN Failed
    ELSE LET gcd_val  == gcd(Num, Den)
             sign_val == sign(Den)
             num      == Div(Mul(sign_val, Num), gcd_val)
             den      == Div(abs(Den), gcd_val)
         IN  IF num = NotConstant \/ den = NotConstant THEN Failed
             ELSE [num |-> num, den |-> den]

\* The member alias `type` of a ratio: ratio<num, den>.
type(R) == ratio(R.num, R.den)

ratio_zero == ratio(0, 1)

ratio_one == ratio(1, 1)

ratio_equal(R1, R2) ==
    /\ R1 # Failed
    /\ R2 # Failed
    /\ R1.num = R2.num
    /\ R1.den = R2.den

\* ratio_add_impl whose second term is scaled by the whole of R1::den.
ratio_add_impl_unscaled_term(R1, R2) ==
    IF R1 = Failed \/ R2 = Failed THEN Failed
    ELSE LET g         == gcd(R1.den, R2.den)
             d2_scaled == Div(R2.den, g)
             t1        == safe_mul(R1.num, d2_scaled)
             t2        == safe_mul(R2.num, R1.den)
             num       == safe_add(t1, t2)
             den       == safe_mul(R1.den, d2_scaled)
         IN  ratio(num, den)

ratio_add_impl(R1, R2) ==
    IF R1 = Failed \/ R2 = Failed THEN Failed
    ELSE LET g         == gcd(R1.den, R2.den)
             d1_scaled == Div(R1.den, g)
             d2_scaled == Div(R2.den, g)
             t1        == safe_mul(R1.num, d2_scaled)
             t2        == safe_mul(R2.num, d1_scaled)
             num       == safe_add(t1, t2)
             den       == safe_mul(R1.den, d2_scaled)
         IN  ratio(num, den)

ratio_subtract_impl(R1, R2) ==
    IF R1 = Failed \/ R2 = Failed THEN Failed
    ELSE LET neg_r2 == ratio(Neg(R2.num), R2.den)
         IN  ratio_add_impl(R1, neg_r2)

ratio_multiply_impl(R1, R2) ==
    IF R1 = Failed \/ R2 = Failed THEN Failed
    ELSE LET g1  == gcd(R1.num, R2.den)
             g2  == gcd(R2.num, R1.den)
             num == safe_mul(Div(R1.num, g1), Div(R2.num, g2))
             den == safe_mul(Div(R1.den, g2), Div(R2.den, g1))
         IN  ratio(num, den)

ratio_divide_impl(R1, R2) ==
    IF R1 = Failed \/ R2 = Failed THEN Failed
    ELSE IF R2.num = 0 THEN Failed
    ELSE LET inv_r2 == ratio(R2.den, R2.num)
         IN  ratio_multiply_impl(R1, inv_r2)

ratio_power_impl(R, Exp) ==
    IF R = Failed THEN Failed
    ELSE IF Exp = 0 THEN ratio_one
    ELSE IF Exp = 1 THEN type(R)
    ELSE IF ~(Exp >= 0 \/ R.num # 0) THEN Failed
    ELSE IF Exp >= 0 THEN ratio(power(R.num, Exp), power(R.den, Exp))
    ELSE ratio(power(R.den, Neg(Exp)), power(R.num, Neg(Exp)))

ratio_negate_impl(R) ==
    IF R = Failed THEN Failed ELSE ratio(Neg(R.num), R.den)

ratio_abs_impl(R) ==
    IF R = Failed THEN Failed ELSE ratio(abs(R.num), R.den)

ratio_inverse_impl(R) ==
    IF R = Failed THEN Failed
    ELSE IF R.num = 0 THEN Failed
    ELSE ratio(R.den, R.num)

\* The public aliases hand the normalised `type` of each operand to the impl.
ratio_add(R1, R2) == ratio_add_impl(type(R1), type(R2))

ratio_subtract(R1, R2) == ratio_subtract_impl(type(R1), type(R2))

ratio_multiply(R1, R2) == ratio_multiply_impl(type(R1), type(R2))

ratio_divide(R1, R2) == ratio_divide_impl(type(R1), type(R2))

ratio_power(R, Exp) == ratio_power_impl(type(R), Exp)

ratio_negate(R) == ratio_negate_impl(type(R))

ratio_abs(R) == ratio_abs_impl(type(R))

ratio_inverse(R) == ratio_inverse_impl(type(R))

---------------------------------------------------------------------------
(* quantity_spec.hpp: the hierarchy of quantity specs.  A spec is a        *)
(* positive number; parent_spec maps it to its parent, or to               *)
(* root_quantity_spec_tag when it is declared quantity_spec<void, ...>.    *)

root_quantity_spec_tag == 0

\* The outcome of naming ::type of a template with no matching definition.
NoType == -1

DeclaredSpecs == DOMAIN parent_spec

is_root_quantity_spec(T) == parent_spec[T] = root_quantity_spec_tag

\* is_child_of_impl that looks at the direct parent only.
is_child_of_direct(Child, Parent) ==
    Child = Parent \/ parent_spec[Child] = Parent

RECURSIVE is_child_of_impl(_, _)
is_child_of_impl(Child, Parent) ==
    IF Child = Parent THEN TRUE
    ELSE IF parent_spec[Child] # root_quantity_spec_tag
         THEN is_child_of_impl(parent_spec[Child], Parent)
         ELSE FALSE

is_child_of_v(Child, Parent) == is_child_of_impl(Child, Parent)

implicitly_convertible_impl(From, To) ==
    IF From = To THEN TRUE
    ELSE IF is_child_of_v(From, To) THEN TRUE
    ELSE FALSE

\* explicitly_convertible_impl that accepts any two specs under one root.
explicitly_convertible_same_root(From, To) ==
    LET root[s \in DeclaredSpecs] ==
            IF parent_spec[s] = root_quantity_spec_tag THEN s
            ELSE root[parent_spec[s]]
    IN  root[From] = root[To]

explicitly_convertible_impl(From, To) ==
    is_child_of_v(From, To) \/ is_child_of_v(To, From)

\* common_quantity_spec_impl that keeps walking Q1 up to its root.
RECURSIVE common_quantity_spec_to_root(_, _)
common_quantity_spec_to_root(Q1, Q2) ==
    IF Q1 = Q2 THEN Q1
    ELSE IF parent_spec[Q1] # root_quantity_spec_tag
         THEN common_quantity_spec_to_root(parent_spec[Q1], Q2)
         ELSE IF is_child_of_v(Q2, Q1) THEN Q1 ELSE NoType

RECURSIVE common_quantity_spec_impl(_, _)
common_quantity_spec_impl(Q1, Q2) ==
    IF Q1 = Q2 THEN Q1
    ELSE IF is_child_of_v(Q1, Q2) THEN Q2
    ELSE IF is_child_of_v(Q2, Q1) THEN Q1
    ELSE IF parent_spec[Q1] # root_quantity_spec_tag
         THEN common_quantity_spec_impl(parent_spec[Q1], Q2)
         ELSE NoType

implicitly_convertible_v(From, To) == implicitly_convertible_impl(From, To)

explicitly_convertible_v(From, To) == explicitly_convertible_impl(From, To)

common_quantity_spec(Q1, Q2) == common_quantity_spec_impl(Q1, Q2)

---------------------------------------------------------------------------
(* Representations.  A value of a Rep is kept as the rational n/d it       *)
(* stands for.  A floating-point Rep holds the rationals m * 2^e whose     *)
(* significand m has at most digits(Rep) bits (the exponent range is left  *)
(* open), and every conversion to it and every operation in it rounds to   *)
(* the nearest such value, ties to even.  An integer Rep holds n/1.        *)

RECURSIVE real_gcd(_, _)
real_gcd(a, b) == IF b = 0 THEN a ELSE real_gcd(b, a % b)

Real(n, d) ==
    LET sn == IF d < 0 THEN -n ELSE n
        sd == IF d < 0 THEN -d ELSE d
        g  == real_gcd(IF sn < 0 THEN -sn ELSE sn, sd)
    IN  [n |-> (IF sn < 0 THEN -((-sn) \div g) ELSE sn \div g), d |-> sd \div g]

RealAdd(x, y) == Real(x.n * y.d + y.n * x.d, x.d * y.d)

RealSub(x, y) == Real(x.n * y.d - y.n * x.d, x.d * y.d)

RealMul(x, y) == Real(x.n * y.n, x.d * y.d)

RealEqual(x, y) == x.n * y.d = y.n * x.d

RealCompare(x, y) ==
    IF x.n * y.d < y.n * x.d THEN "less"
    ELSE IF x.n * y.d > y.n * x.d THEN "greater"
    ELSE "equivalent"

Reps == {"int", "float", "double"}

is_floating_point_v(T) == T \in {"float", "double"}

\* std::convertible_to between arithmetic types.
convertible_to(From, To) == From \in Reps /\ To \in Reps

\* std::common_type_t of two arithmetic types.
common_type_t(T1, T2) ==
    IF T1 = "double" \/ T2 = "double" THEN "double"
    ELSE IF T1 = "float" \/ T2 = "float" THEN "float"
    ELSE "int"

\* std::numeric_limits<T>::digits of the two floating-point types.
FloatDigits == 3

DoubleDigits == 8

digits(T) == IF T = "float" THEN FloatDigits ELSE DoubleDigits

RECURSIVE pow2(_)
pow2(k) == IF k = 0 THEN 1 ELSE 2 * pow2(k - 1)

\* The exponent e and the scaled fraction n/d with 2^(p-1) <= n/d < 2^p and
\* n/d * 2^e equal to the positive rational that was given.
RECURSIVE normalized(_, _, _, _)
normalized(n, d, e, p) ==
    IF n >= pow2(p) * d THEN normalized(n, 2 * d, e + 1, p)
    ELSE IF n < pow2(p - 1) * d THEN normalized(2 * n, d, e - 1, p)
    ELSE [n |-> n, d |-> d, e |-> e]

\* The value of type T nearest to x, ties to the even significand.
nearest(T, x) ==
    IF x.n = 0 THEN x
    ELSE LET rounded(f) ==
                 LET q == f.n \div f.d
                     r == f.n % f.d
                     m == IF 2 * r > f.d \/ (2 * r = f.d /\ q % 2 = 1)
                          THEN q + 1 ELSE q
                     s == IF x.n < 0 THEN -m ELSE m
                 IN  IF f.e >= 0 THEN Real(s * pow2(f.e), 1)
                     ELSE Real(s, pow2(-f.e))
         IN  rounded(normalized(IF x.n < 0 THEN -x.n ELSE x.n, x.d, 0, digits(T)))

\* static_cast<Rep>(x): a floating-point Rep rounds, an integer Rep drops the
\* fraction, towards zero.
static_cast(Rep, x) ==
    IF is_floating_point_v(Rep) THEN nearest(Rep, x)
    ELSE IF x.n >= 0 THEN Real(x.n \div x.d, 1)
    ELSE Real(-((-x.n) \div x.d), 1)

\* x + y, x - y, x * y and x / y between two values of type T.
plus(T, x, y) == static_cast(T, RealAdd(x, y))

minus(T, x, y) == static_cast(T, RealSub(x, y))

multiplies(T, x, y) == static_cast(T, RealMul(x, y))

divides(T, x, y) == static_cast(T, Real(x.n * y.d, x.d * y.n))

---------------------------------------------------------------------------
(* unit.hpp: magnitudes and units.  A unit is its quantity_kind and its    *)
(* magnitude_type; a magnitude is the ratio it wraps.                      *)

mag_one == ratio_one

mag_multiply(M1, M2) == ratio_multiply(M1, M2)

mag_divide(M1, M2) == ratio_divide(M1, M2)

\* ratio<N, D>::value<T>(), also reached through magnitude<R>::value<T>().
ratio_value(R, T) ==
    divides(T, static_cast(T, Real(R.num, 1)), static_cast(T, Real(R.den, 1)))

named_unit(QuantityKind, Mag) ==
    [quantity_kind |-> QuantityKind, magnitude_type |-> Mag]

scaled_unit(BaseUnit, ScaleMag) ==
    [quantity_kind  |-> BaseUnit.quantity_kind,
     magnitude_type |-> mag_multiply(ScaleMag, BaseUnit.magnitude_type)]

get_magnitude(U) == U.magnitude_type

\* conversion_factor<FromUnit, ToUnit, T>() with the units swapped.
conversion_factor_reversed(FromUnit, ToUnit) ==
    mag_divide(get_magnitude(ToUnit), get_magnitude(FromUnit))

\* conversion_factor_t<FromUnit, ToUnit> that leaves out the target unit.
conversion_factor_to_base(FromUnit, ToUnit) ==
    mag_divide(get_magnitude(FromUnit), mag_one)

\* conversion_factor<FromUnit, ToUnit, T>(): the ratio whose value<T>() is
\* returned; it needs a floating-point T (see Factor below).
conversion_factor(FromUnit, ToUnit) ==
    mag_divide(get_magnitude(FromUnit), get_magnitude(ToUnit))

---------------------------------------------------------------------------
(* reference.hpp                                                           *)

reference(QSpec, UnitType) == [quantity_spec |-> QSpec, unit |-> UnitType]

get_quantity_spec(Ref) == Ref.quantity_spec

get_unit(Ref) == Ref.unit

\* references_compatible_v that asks only for a shared ancestor.
references_related(Ref1, Ref2) ==
    common_quantity_spec(get_quantity_spec(Ref1), get_quantity_spec(Ref2)) # NoType

references_compatible_v(Ref1, Ref2) ==
    \/ get_quantity_spec(Ref1) = get_quantity_spec(Ref2)
    \/ implicitly_convertible_v(get_quantity_spec(Ref1), get_quantity_spec(Ref2))
    \/ implicitly_convertible_v(get_quantity_spec(Ref2), get_quantity_spec(Ref1))

reference_conversion_factor(FromRef, ToRef) ==
    conversion_factor(get_unit(FromRef), get_unit(ToRef))

---------------------------------------------------------------------------
(* quantity.hpp.  A quantity is its reference, its Rep and its value_.     *)
(* An expression over quantities either finds no overload or constructor   *)
(* whose constraints hold ("no_match"), or selects one whose body cannot   *)
(* be instantiated ("ill_formed"), or builds and yields a result ("ok").   *)

quantity(Ref, Rep, v) == [ref |-> Ref, rep |-> Rep, value_ |-> v]

NoMatch == [status |-> "no_match"]

IllFormed == [status |-> "ill_formed"]

Built(r) == [status |-> "ok", result |-> r]

\* A factor that is not a constant expression of a floating-point type.
NoFactor == [n |-> 0, d |-> 0]

\* `constexpr auto factor = conversion_factor<From, To, T>()`: T must be a
\* floating-point type and the ratio of the magnitudes must evaluate.
Factor(R, T) ==
    IF is_floating_point_v(T) /\ R # Failed THEN ratio_value(R, T) ELSE NoFactor

same_reference_v(Ref1, Ref2) == Ref1 = Ref2

\* quantity<Ref, Rep> x = other;  (copy constructor or converting constructor)
converting_constructor(Ref, Rep, other) ==
    IF Ref = other.ref /\ Rep = other.rep THEN Built(other)
    ELSE IF /\ ~same_reference_v(Ref, other.ref)
            /\ implicitly_convertible_v(get_quantity_spec(other.ref),
                                        get_quantity_spec(Ref))
            /\ convertible_to(other.rep, Rep)
    THEN LET scaled(factor) ==
                 IF factor = NoFactor THEN IllFormed
                 ELSE Built(quantity(Ref, Rep,
                         static_cast(Rep, multiplies(common_type_t(other.rep, Rep),
                                                     other.value_, factor))))
         IN  scaled(Factor(reference_conversion_factor(other.ref, Ref), Rep))
    ELSE NoMatch

\* q.in(ToUnit) with the product held in an integer before it is stored.
in_through_int(q, ToUnit) ==
    LET new_ref == reference(get_quantity_spec(q.ref), ToUnit)
        scaled(factor) ==
            IF factor = NoFactor THEN IllFormed
            ELSE Built(quantity(new_ref, q.rep,
                                static_cast("int", multiplies(q.rep, q.value_, factor))))
    IN  scaled(Factor(conversion_factor(get_unit(q.ref), ToUnit), q.rep))

\* q.in(ToUnit)
in(q, ToUnit) ==
    LET new_ref == reference(get_quantity_spec(q.ref), ToUnit)
        scaled(factor) ==
            IF factor = NoFactor THEN IllFormed
            ELSE Built(quantity(new_ref, q.rep,
                                static_cast(q.rep, multiplies(q.rep, q.value_, factor))))
    IN  scaled(Factor(conversion_factor(get_unit(q.ref), ToUnit), q.rep))

\* q.force_in(ToUnit)
force_in(q, ToUnit) ==
    LET new_ref == reference(get_quantity_spec(q.ref), ToUnit)
        scaled(factor) ==
            IF factor = NoFactor THEN IllFormed
            ELSE Built(quantity(new_ref, q.rep,
                                static_cast(q.rep, multiplies(q.rep, q.value_, factor))))
    IN  scaled(Factor(conversion_factor(get_unit(q.ref), ToUnit), q.rep))

\* The body shared by the four operators between different compatible
\* references: common_rep, the factor from Ref2 to Ref1, and the two values
\* brought to common_rep and to the unit of Ref1.
Aligned(lhs, rhs) ==
    LET common_rep == common_type_t(lhs.rep, rhs.rep)
        scaled(factor) ==
            IF factor = NoFactor THEN NoFactor
            ELSE [rep |-> common_rep,
                  l   |-> static_cast(common_rep, lhs.value_),
                  r   |-> multiplies(common_rep, static_cast(common_rep, rhs.value_),
                                     factor)]
    IN  scaled(Factor(reference_conversion_factor(rhs.ref, lhs.ref), common_rep))

result_ref(lhs, rhs) ==
    reference(common_quantity_spec(get_quantity_spec(lhs.ref),
                                   get_quantity_spec(rhs.ref)),
              get_unit(lhs.ref))

\* lhs + rhs
operator_plus(lhs, rhs) ==
    IF lhs.ref = rhs.ref
    THEN LET common_rep == common_type_t(lhs.rep, rhs.rep)
         IN  Built(quantity(lhs.ref, common_rep,
                            plus(common_rep, static_cast(common_rep, lhs.value_),
                                 static_cast(common_rep, rhs.value_))))
    ELSE IF references_compatible_v(lhs.ref, rhs.ref)
    THEN LET combined(a) ==
                 IF a = NoFactor THEN IllFormed
                 ELSE Built(quantity(result_ref(lhs, rhs), a.rep,
                                     plus(a.rep, a.l, a.r)))
         IN  combined(Aligned(lhs, rhs))
    ELSE NoMatch

\* lhs - rhs
operator_minus(lhs, rhs) ==
    IF lhs.ref = rhs.ref
    THEN LET common_rep == common_type_t(lhs.rep, rhs.rep)
         IN  Built(quantity(lhs.ref, common_rep,
                            minus(common_rep, static_cast(common_rep, lhs.value_),
                                  static_cast(common_rep, rhs.value_))))
    ELSE IF references_compatible_v(lhs.ref, rhs.ref)
    THEN LET combined(a) ==
                 IF a = NoFactor THEN IllFormed
                 ELSE Built(quantity(result_ref(lhs, rhs), a.rep,
                                     minus(a.rep, a.l, a.r)))
         IN  combined(Aligned(lhs, rhs))
    ELSE NoMatch

\* lhs == rhs
operator_equal(lhs, rhs) ==
    IF lhs.ref = rhs.ref
    THEN Built(RealEqual(lhs.value_, rhs.value_))
    ELSE IF references_compatible_v(lhs.ref, rhs.ref)
    THEN LET compared(a) ==
                 IF a = NoFactor THEN IllFormed ELSE Built(RealEqual(a.l, a.r))
         IN  compared(Aligned(lhs, rhs))
    ELSE NoMatch

\* lhs <=> rhs
operator_spaceship(lhs, rhs) ==
    IF lhs.ref = rhs.ref
    THEN Built(RealCompare(lhs.value_, rhs.value_))
    ELSE IF references_compatible_v(lhs.ref, rhs.ref)
    THEN LET compared(a) ==
                 IF a = NoFactor THEN IllFormed ELSE Built(RealCompare(a.l, a.r))
         IN  compared(Aligned(lhs, rhs))
    ELSE NoMatch

---------------------------------------------------------------------------
(* ratio.hpp: the comparison traits.  The value of a trait is a constant  *)
(* expression; the two products of ratio_less are built-in                 *)
(* multiplications.                                                        *)

ratio_equal_v(R1, R2) == ratio_equal(R1, R2)

\* ratio_less that compares the numerators and leaves out the denominators.
ratio_less_by_numerator(R1, R2) ==
    IF type(R1) = Failed \/ type(R2) = Failed THEN IllFormed
    ELSE Built(type(R1).num < type(R2).num)

ratio_less(R1, R2) ==
    LET r1  == type(R1)
        r2  == type(R2)
        g   == gcd(r1.den, r2.den)
        lhs == Mul(r1.num, Div(r2.den, g))
        rhs == Mul(r2.num, Div(r1.den, g))
    IN  IF r1 = Failed \/ r2 = Failed \/ lhs = NotConstant \/ rhs = NotConstant
        THEN IllFormed
        ELSE Built(lhs < rhs)

ratio_less_v(R1, R2) == ratio_less(R1, R2)

\* l || r of two constant expressions, l being evaluated first.
logical_or(l, r) ==
    IF l.status # "ok" THEN l
    ELSE IF l.result THEN Built(TRUE)
    ELSE r

ratio_less_equal_v(R1, R2) ==
    logical_or(ratio_less_v(R1, R2), Built(ratio_equal_v(R1, R2)))

ratio_greater_v(R1, R2) == ratio_less_v(R2, R1)

ratio_greater_equal_v(R1, R2) ==
    logical_or(ratio_greater_v(R1, R2), Built(ratio_equal_v(R1, R2)))

ratio_not_equal_v(R1, R2) == ~ratio_equal_v(R1, R2)

---------------------------------------------------------------------------
(* ratio.hpp: a call of one of the two overflow predicates in a constant  *)
(* expression.  The call is ill-formed when a division or subtraction     *)
(* inside the predicate overflows.                                        *)

mul_overflow_call(a, b) ==
    IF a # 0 /\ b # 0 /\ mul_overflow_quotient(a, b) = NotConstant THEN IllFormed
    ELSE Built(mul_overflow(a, b))

add_overflow_call(a, b) ==
    IF NotConstant \in add_overflow_differences(a, b) THEN IllFormed
    ELSE Built(add_overflow(a, b))

---------------------------------------------------------------------------
(* unit.hpp: derived units.  A derived unit is its two lists of terms and  *)
(* its magnitude_type; a term is a unit and a power.  The magnitude is a   *)
(* member of the class, so a derived unit whose magnitude does not         *)
(* evaluate cannot be instantiated.                                        *)

unit_term(U, Power) == [unit |-> U, power |-> Power]

mag_power(M, Exp) == ratio_power(M, Exp)

RECURSIVE combined_magnitude(_)
combined_magnitude(Terms) ==
    IF Terms = <<>> THEN mag_one
    ELSE LET First    == Head(Terms)
             unit_mag == mag_power(get_magnitude(First.unit), First.power)
             rest_mag == combined_magnitude(Tail(Terms))
         IN  mag_multiply(unit_mag, rest_mag)

numerator_magnitude(Num) == combined_magnitude(Num)

\* denominator_magnitude that does not invert the product of its terms.
denominator_magnitude_uninverted(Den) == combined_magnitude(Den)

denominator_magnitude(Den) ==
    LET num_mag == combined_magnitude(Den)
    IN  mag_divide(mag_one, num_mag)

derived_unit(Num, Den) ==
    [numerator_terms   |-> Num,
     denominator_terms |-> Den,
     magnitude_type    |-> mag_multiply(numerator_magnitude(Num),
                                        denominator_magnitude(Den))]

\* flatten_unit<U>: the specialization for derived_unit, else the primary.
flatten_unit(U) ==
    IF "numerator_terms" \in DOMAIN U
    THEN [num |-> U.numerator_terms, den |-> U.denominator_terms]
    ELSE [num |-> <<unit_term(U, 1)>>, den |-> <<>>]

merge_unit_numerators(N1, N2) == N1 \o N2

merge_unit_denominators(D1, D2) == D1 \o D2

unit_num_to_den(N) == N

unit_den_to_num(D) == D

\* `return derived_unit<new_num, new_den> {};`
Instantiated(U) == IF get_magnitude(U) = Failed THEN IllFormed ELSE Built(U)

\* self * other, the same body in named_unit, scaled_unit and derived_unit
unit_multiply(Self, Other) ==
    LET self_flat  == flatten_unit(Self)
        other_flat == flatten_unit(Other)
        new_num    == merge_unit_numerators(self_flat.num, other_flat.num)
        new_den    == merge_unit_denominators(self_flat.den, other_flat.den)
    IN  Instantiated(derived_unit(new_num, new_den))

\* self / other, the same body in named_unit, scaled_unit and derived_unit
unit_divide(Self, Other) ==
    LET self_flat  == flatten_unit(Self)
        other_flat == flatten_unit(Other)
        new_num    == merge_unit_numerators(self_flat.num,
                                            unit_den_to_num(other_flat.den))
        new_den    == merge_unit_denominators(self_flat.den,
                                              unit_num_to_den(other_flat.num))
    IN  Instantiated(derived_unit(new_num, new_den))

---------------------------------------------------------------------------
(* quantity_point.hpp: point origins.  An origin type is a specialization  *)
(* of one of the two class templates, or a struct declared as              *)
(* `struct Name final : Base {}`.  Such a struct has the members of its     *)
(* base class, but a partial specialization written for the template does  *)
(* not match it.                                                           *)

absolute_point_origin(QSpec) ==
    [template |-> "absolute_point_origin", quantity_spec |-> QSpec,
     is_absolute |-> TRUE]

relative_point_origin(Origin, OffsetRef, OffsetRep, OffsetVal) ==
    [template |-> "relative_point_origin", base_origin |-> Origin,
     offset_reference |-> OffsetRef, offset_rep |-> OffsetRep,
     offset_value |-> OffsetVal, is_absolute |-> FALSE]

\* struct Name final : Base {};
derived_struct(Name, Base) == [name |-> Name, base_class |-> Base]

\* Member lookup: T::member, found in the base class of a derived struct.
members(T) == IF "base_class" \in DOMAIN T THEN T.base_class ELSE T

\* T is a specialization of the class template named Template.
specializes(T, Template) == "template" \in DOMAIN T /\ T.template = Template

is_absolute_origin_v(T) == members(T).is_absolute

is_relative_origin_v(T) == ~members(T).is_absolute

\* relative_point_origin::offset()
offset(Origin) ==
    quantity(members(Origin).offset_reference, members(Origin).offset_rep,
             members(Origin).offset_value)

\* detail::root_origin_impl<Origin>::type: the specialization for
\* relative_point_origin<Base, Ref, Rep, Val>, else the primary template.
RECURSIVE root_origin_impl(_)
root_origin_impl(Origin) ==
    IF specializes(Origin, "relative_point_origin")
    THEN root_origin_impl(Origin.base_origin)
    ELSE Origin

root_origin(Origin) == root_origin_impl(Origin)

\* The partial specializations of detail::origin_offset_impl whose pattern
\* (and constraint) FromOrigin and ToOrigin match.
origin_offset_matches(FromOrigin, ToOrigin) ==
    {sp \in {"same", "absolute", "to_base", "from_base"} :
        \/ sp = "same" /\ FromOrigin = ToOrigin
        \/ /\ sp = "absolute"
           /\ specializes(FromOrigin, "absolute_point_origin")
           /\ specializes(ToOrigin, "absolute_point_origin")
           /\ FromOrigin.quantity_spec = ToOrigin.quantity_spec
        \/ /\ sp = "to_base"
           /\ specializes(FromOrigin, "relative_point_origin")
           /\ ToOrigin = FromOrigin.base_origin
        \/ /\ sp = "from_base"
           /\ specializes(ToOrigin, "relative_point_origin")
           /\ FromOrigin = ToOrigin.base_origin}

\* quantity<Ref, Rep> { static_cast<Rep>(
\*     (+/-) offset.value() * reference_conversion_factor<OffsetRef, Ref, Rep>()) }
offset_in(Relative, negated, Ref, Rep) ==
    LET off    == offset(Relative)
        signed == IF negated THEN Real(-off.value_.n, off.value_.d) ELSE off.value_
        scaled(factor) ==
            IF factor = NoFactor THEN IllFormed
            ELSE Built(quantity(Ref, Rep,
                                static_cast(Rep, multiplies(common_type_t(off.rep, Rep),
                                                            signed, factor))))
    IN  scaled(Factor(reference_conversion_factor(off.ref, Ref), Rep))

\* origin_offset_impl with a primary template that yields no offset.
origin_offset_or_zero(FromOrigin, ToOrigin, Ref, Rep) ==
    LET matching == origin_offset_matches(FromOrigin, ToOrigin)
    IN  IF matching = {"to_base"} THEN offset_in(FromOrigin, TRUE, Ref, Rep)
        ELSE IF matching = {"from_base"} THEN offset_in(ToOrigin, FALSE, Ref, Rep)
        ELSE Built(quantity(Ref, Rep, Real(0, 1)))

\* detail::origin_offset_impl<FromOrigin, ToOrigin, Ref, Rep>::value(): the
\* primary template is only declared, so with no matching specialization
\* the type is incomplete; "same" and "absolute" both match a pair of equal
\* absolute_point_origin<QSpec> and neither is more specialized.
origin_offset_impl(FromOrigin, ToOrigin, Ref, Rep) ==
    LET matching == origin_offset_matches(FromOrigin, ToOrigin)
    IN  IF Cardinality(matching) # 1 THEN IllFormed
        ELSE IF matching = {"to_base"} THEN offset_in(FromOrigin, TRUE, Ref, Rep)
        ELSE IF matching = {"from_base"} THEN offset_in(ToOrigin, FALSE, Ref, Rep)
        ELSE Built(quantity(Ref, Rep, Real(0, 1)))

origin_offset(FromOrigin, ToOrigin, Ref, Rep) ==
    origin_offset_impl(FromOrigin, ToOrigin, Ref, Rep)

---------------------------------------------------------------------------
(* quantity_point.hpp: quantity_point<Ref, Origin, Rep>.  A point is its    *)
(* reference, its origin, its Rep and its member displacement_, a          *)
(* quantity<Ref, Rep>.                                                     *)

quantity_point(Ref, Origin, Rep, qty) ==
    [ref |-> Ref, origin |-> Origin, rep |-> Rep, displacement_ |-> qty]

is_quantity_point(T) == "displacement_" \in DOMAIN T

\* concept Quantity
Quantity(T) == "value_" \in DOMAIN T

same_point_type(P1, P2) ==
    P1.ref = P2.ref /\ P1.origin = P2.origin /\ P1.rep = P2.rep

\* A member quantity<Ref, Rep> left without an initializer: the default
\* constructor of quantity is deleted.
default_initialized(Ref, Rep) == IllFormed

\* quantity_point<Ref, Origin, Rep> { other } for a point other: the copy
\* constructor, or the explicit converting constructor, whose body assigns
\* displacement_ after the member has been default-initialized.
point_converting_constructor(Ref, Origin, Rep, other) ==
    IF Ref = other.ref /\ Origin = other.origin /\ Rep = other.rep
    THEN Built(other)
    ELSE IF ~convertible_to(other.rep, Rep) THEN NoMatch
    ELSE LET member == default_initialized(Ref, Rep)
             shifted(converted_qty, shift) ==
                 IF shift.status # "ok" THEN IllFormed
                 ELSE Built(quantity_point(Ref, Origin, Rep,
                                operator_plus(converted_qty, shift.result).result))
             assigned(factor) ==
                 LET converted_qty ==
                         quantity(Ref, Rep,
                                  static_cast(Rep,
                                      multiplies(common_type_t(other.rep, Rep),
                                                 other.displacement_.value_, factor)))
                 IN  IF member = IllFormed \/ factor = NoFactor THEN IllFormed
                     ELSE IF Origin # other.origin
                     THEN shifted(converted_qty,
                                  origin_offset(other.origin, Origin, Ref, Rep))
                     ELSE Built(quantity_point(Ref, Origin, Rep, converted_qty))
         IN  assigned(Factor(reference_conversion_factor(other.ref, Ref), Rep))

\* quantity_point<Ref, Origin, Rep> { arg }
point_constructor(Ref, Origin, Rep, arg) ==
    IF is_quantity_point(arg)
    THEN point_converting_constructor(Ref, Origin, Rep, arg)
    ELSE LET held(qty) ==
                 IF qty.status = "ok"
                 THEN Built(quantity_point(Ref, Origin, Rep, qty.result))
                 ELSE qty
         IN  held(converting_constructor(Ref, Rep, arg))

\* operator+ of quantity_point that adds two points of one type.
point_plus_accepting_points(self, arg) ==
    IF is_quantity_point(arg)
    THEN IF same_point_type(self, arg)
         THEN Built(quantity_point(self.ref, self.origin, self.rep,
                        operator_plus(self.displacement_, arg.displacement_).result))
         ELSE NoMatch
    ELSE LET moved(delta) ==
                 IF delta.status # "ok" THEN delta
                 ELSE Built(quantity_point(self.ref, self.origin, self.rep,
                                operator_plus(self.displacement_, delta.result).result))
         IN  moved(converting_constructor(self.ref, self.rep, arg))

\* self + arg: operator+(quantity_point) = delete takes a point of the same
\* type (the other constructors of quantity_point are explicit);
\* operator+(const quantity_type &) takes what converts implicitly to
\* quantity<Ref, Rep>.
point_plus(self, arg) ==
    IF is_quantity_point(arg)
    THEN IF same_point_type(self, arg) THEN IllFormed ELSE NoMatch
    ELSE LET moved(delta) ==
                 IF delta.status # "ok" THEN delta
                 ELSE Built(quantity_point(self.ref, self.origin, self.rep,
                                operator_plus(self.displacement_, delta.result).result))
         IN  moved(converting_constructor(self.ref, self.rep, arg))

\* operator- of quantity_point that adds the quantity it is given.
point_minus_adding(self, arg) ==
    IF is_quantity_point(arg)
    THEN IF same_point_type(self, arg)
         THEN operator_minus(self.displacement_, arg.displacement_)
         ELSE NoMatch
    ELSE LET moved(delta) ==
                 IF delta.status # "ok" THEN delta
                 ELSE Built(quantity_point(self.ref, self.origin, self.rep,
                                operator_plus(self.displacement_, delta.result).result))
         IN  moved(converting_constructor(self.ref, self.rep, arg))

\* self - arg: operator-(const quantity_point &) and
\* operator-(const quantity_type &).
point_minus(self, arg) ==
    IF is_quantity_point(arg)
    THEN IF same_point_type(self, arg)
         THEN operator_minus(self.displacement_, arg.displacement_)
         ELSE NoMatch
    ELSE LET moved(delta) ==
                 IF delta.status # "ok" THEN delta
                 ELSE Built(quantity_point(self.ref, self.origin, self.rep,
                                operator_minus(self.displacement_, delta.result).result))
         IN  moved(converting_constructor(self.ref, self.rep, arg))

\* lhs == rhs for two points: one Ref and one Origin are deduced from both.
point_equal(l, r) ==
    IF l.ref = r.ref /\ l.origin = r.origin
    THEN operator_equal(l.displacement_, r.displacement_)
    ELSE NoMatch

\* An operand of an arithmetic type: its type and its value.
arithmetic(T, x) == [rep |-> T, number |-> x]

\* The scalar overloads of operator* and operator/ of quantity.hpp:
\* requires std::convertible_to<Scalar, Rep> && (!Quantity<Scalar>).
\* A point or a quantity has no conversion function to an arithmetic type.
scalar_operand(Scalar, Rep) ==
    (IF is_quantity_point(Scalar) \/ Quantity(Scalar) THEN FALSE
     ELSE convertible_to(Scalar.rep, Rep)) /\ ~Quantity(Scalar)

\* A division whose divisor is zero: undefined for an integer type, an
\* infinity or a NaN for a floating-point type, and in both cases not a
\* constant expression.
DividedByZero == [status |-> "divided_by_zero"]

\* q * scalar, scalar * q (op "times") and q / scalar (op "over"): the
\* scalar is cast to Rep before the operation.
scalar_operator(op, q, scalar) ==
    IF ~scalar_operand(scalar, q.rep) THEN NoMatch
    ELSE LET applied(s) ==
                 IF op = "times"
                 THEN Built(quantity(q.ref, q.rep, multiplies(q.rep, q.value_, s)))
                 ELSE IF s.n = 0 THEN DividedByZero
                 ELSE Built(quantity(q.ref, q.rep, divides(q.rep, q.value_, s)))
         IN  applied(static_cast(q.rep, scalar.number))

\* l op r where at least one operand is a point.  quantity_point declares
\* operator+ and operator- only; the operator templates of quantity.hpp
\* deduce quantity<Ref, Rep> from a parameter, which fails for a point, or
\* take the other operand as a scalar.
point_expression(op, l, r) ==
    IF is_quantity_point(l)
    THEN IF op = "plus" THEN point_plus(l, r)
         ELSE IF op = "minus" THEN point_minus(l, r)
         ELSE IF op = "times" /\ Quantity(r) THEN scalar_operator(op, r, l)
         ELSE NoMatch
    ELSE IF op \in {"times", "over"} THEN scalar_operator(op, l, r)
         ELSE NoMatch

---------------------------------------------------------------------------
(* Specification of the ratio algebra: operands are drawn from every       *)
(* ratio<n, d> of the integer type, each step applies one operation to     *)
(* (ra, rb), and Chain feeds a result back as an operand.                  *)

Ints == min_val .. max_val

Exps == (-MaxExp) .. MaxExp

\* Every ratio<n, d> that can be written, by its members.
Ratios == {ratio(n, d) : n \in Ints, d \in Ints}

\* Either a pair of operands, or a ratio<n, d> just written out.
RatioInit ==
    /\ rb \in Ratios
    /\ rexp = 0
    /\ \/ /\ ra \in Ratios
          /\ rop = "operand"
          /\ rnum = 0
          /\ rden = 1
       \/ /\ rop = "ratio"
          /\ rnum \in Ints
          /\ rden \in Ints
          /\ ra = ratio(rnum, rden)
          /\ rb = ratio_one
    /\ rres = ra

Applied(op, e, result) ==
    /\ rop' = op
    /\ rexp' = e
    /\ rres' = result
    /\ rnum' = 0
    /\ rden' = 1
    /\ UNCHANGED <<ra, rb, beside_ratio>>

\* Another ratio<n, d> is written out and becomes the left operand.
RatioConstruct ==
    \E n \in Ints, d \in Ints :
        /\ rop = "ratio"
        /\ rop' = "ratio"
        /\ rnum' = n
        /\ rden' = d
        /\ rres' = ratio(n, d)
        /\ ra' = ratio(n, d)
        /\ rexp' = 0
        /\ UNCHANGED <<rb, beside_ratio>>

RatioAdd == Applied("add", 0, ratio_add(ra, rb))

RatioSubtract == Applied("subtract", 0, ratio_subtract(ra, rb))

RatioMultiply == Applied("multiply", 0, ratio_multiply(ra, rb))

RatioDivide == Applied("divide", 0, ratio_divide(ra, rb))

RatioPower == \E e \in Exps : Applied("power", e, ratio_power(ra, e))

RatioNegate == Applied("negate", 0, ratio_negate(ra))

RatioAbs == Applied("abs", 0, ratio_abs(ra))

RatioInverse == Applied("inverse", 0, ratio_inverse(ra))

\* The result of the last operation becomes the left operand of the next.
Chain ==
    /\ rop \notin {"operand", "ratio"}
    /\ ra' = rres
    /\ rb' \in {ra, rb}
    /\ rexp' = 0
    /\ rop' = "operand"
    /\ rres' = rres
    /\ rnum' = 0
    /\ rden' = 1
    /\ UNCHANGED beside_ratio

RatioNext ==
    \/ RatioConstruct
    \/ RatioAdd
    \/ RatioSubtract
    \/ RatioMultiply
    \/ RatioDivide
    \/ RatioPower
    \/ RatioNegate
    \/ RatioAbs
    \/ RatioInverse
    \/ Chain

\* The ratio variables while another part of the library is exercised.
RatioIdle ==
    /\ ra = ratio_one
    /\ rb = ratio_one
    /\ rexp = 0
    /\ rop = "operand"
    /\ rres = ratio_one
    /\ rnum = 0
    /\ rden = 1

---------------------------------------------------------------------------
(* Specification of the quantity-spec hierarchy: a hierarchy of NumSpecs   *)
(* named specs is declared (a spec names an earlier declaration as its     *)
(* parent, or none), two of them are picked, and each step evaluates one   *)
(* trait on the pair.                                                      *)

Hierarchies ==
    {f \in [1 .. NumSpecs -> 0 .. NumSpecs] : \A i \in 1 .. NumSpecs : f[i] < i}

KindInit ==
    /\ parent_spec \in Hierarchies
    /\ kfrom \in 1 .. NumSpecs
    /\ kto \in 1 .. NumSpecs
    /\ kop = "declared"
    /\ kres = FALSE

Evaluated2(op, value) ==
    /\ kop' = op
    /\ kres' = value
    /\ UNCHANGED <<parent_spec, kfrom, kto, beside_kind>>

IsChildOf == Evaluated2("is_child_of", is_child_of_v(kfrom, kto))

ImplicitlyConvertible ==
    Evaluated2("implicitly_convertible", implicitly_convertible_v(kfrom, kto))

ExplicitlyConvertible ==
    Evaluated2("explicitly_convertible", explicitly_convertible_v(kfrom, kto))

CommonQuantitySpec ==
    Evaluated2("common_quantity_spec", common_quantity_spec(kfrom, kto))

KindNext ==
    \/ IsChildOf
    \/ ImplicitlyConvertible
    \/ ExplicitlyConvertible
    \/ CommonQuantitySpec

\* A fragment of the ISQ catalogue: length with its children width and
\* height, and the two unrelated roots energy and torque.
length_t == 1

width_t == 2

height_t == 3

energy_t == 4

torque_t == 5

isq ==
    <<root_quantity_spec_tag, length_t, length_t,
      root_quantity_spec_tag, root_quantity_spec_tag>>

\* The base quantity thermodynamic temperature, declared beside them.
thermodynamic_temperature_t == 6

isq_with_temperature == Append(isq, root_quantity_spec_tag)

\* The hierarchy variables while another part of the library is exercised.
KindIdle ==
    /\ parent_spec = isq_with_temperature
    /\ kfrom = 1
    /\ kto = 1
    /\ kop = "declared"
    /\ kres = FALSE

---------------------------------------------------------------------------
(* Specification of quantities over the ISQ fragment.  Two quantities are  *)
(* given; a step writes one expression over them: q1 + q2, q1 - q2,        *)
(* q1 == q2, q1 <=> q2, the implicit conversion of q2 into the type of q1, *)
(* the reprojection of q1 onto the unit of q2, or that reprojection        *)
(* followed by the one back onto the unit of q1.  Units are told apart by  *)
(* their quantity kind and magnitude.                                      *)

metre_t == named_unit(length_t, mag_one)

joule_t == named_unit(energy_t, mag_one)

Scales == {ratio(1, 1), ratio(MaxScale, 1), ratio(1, MaxScale)}

Units == {scaled_unit(metre_t, s) : s \in Scales} \cup {joule_t}

RepValues == {-1, 3}

Quantities ==
    {quantity(reference(s, u), r, Real(v, 1)) :
        s \in DOMAIN isq, u \in Units, r \in Reps, v \in RepValues}

QtyInit ==
    /\ q1 \in Quantities
    /\ q2 \in Quantities
    /\ qop = "operands"
    /\ qres = NoMatch

Written(op, outcome) ==
    /\ qop = "operands"
    /\ qop' = op
    /\ qres' = outcome
    /\ UNCHANGED <<q1, q2, beside_qty>>

Plus == Written("plus", operator_plus(q1, q2))

Minus == Written("minus", operator_minus(q1, q2))

Equal == Written("equal", operator_equal(q1, q2))

Spaceship == Written("spaceship", operator_spaceship(q1, q2))

Convert == Written("convert", converting_constructor(q1.ref, q1.rep, q2))

In == Written("in", in(q1, get_unit(q2.ref)))

ForceIn == Written("force_in", force_in(q1, get_unit(q2.ref)))

\* q1.in(unit of q2).in(unit of q1)
InIn ==
    LET there == in(q1, get_unit(q2.ref))
    IN  Written("in_in", IF there.status = "ok"
                         THEN in(there.result, get_unit(q1.ref))
                         ELSE there)

QtyNext ==
    \/ Plus
    \/ Minus
    \/ Equal
    \/ Spaceship
    \/ Convert
    \/ In
    \/ ForceIn
    \/ InIn

\* The quantity variables while another part of the library is exercised.
QtyIdle ==
    /\ q1 = quantity(reference(length_t, metre_t), "double", Real(2, 1))
    /\ q2 = quantity(reference(length_t, metre_t), "double", Real(2, 1))
    /\ qop = "operands"
    /\ qres = NoMatch

---------------------------------------------------------------------------
(* Specification of the unit algebra.  Two units are given, named units of *)
(* any magnitude or derived units written out with one term of some power; *)
(* a step multiplies or divides them or takes the conversion factor from   *)
(* the first to the second, and a product or quotient can be fed back as   *)
(* either operand until it has MaxTerms terms.                             *)

MaxTerms == 3

UnitMags == {ratio(n, d) : n \in (-1) .. MaxScale, d \in {1, MaxScale}}

NamedUnits == {named_unit(length_t, m) : m \in UnitMags}

PowerUnits ==
    {u \in {derived_unit(<<unit_term(n, e)>>, <<>>) :
                n \in NamedUnits, e \in {-1, MaxExp}} :
        get_magnitude(u) # Failed}

GivenUnits == NamedUnits \cup PowerUnits

terms(U) == Len(flatten_unit(U).num) + Len(flatten_unit(U).den)

UnitInit ==
    /\ ua \in GivenUnits
    /\ ub \in GivenUnits
    /\ uop = "operands"
    /\ ures = NoMatch

UnitWritten(op, outcome) ==
    /\ uop = "operands"
    /\ uop' = op
    /\ ures' = outcome
    /\ UNCHANGED <<ua, ub, beside_unit>>

UnitMultiply == UnitWritten("multiply", unit_multiply(ua, ub))

UnitDivide == UnitWritten("divide", unit_divide(ua, ub))

UnitFactor ==
    UnitWritten("conversion_factor_t",
                IF conversion_factor(ua, ub) = Failed THEN IllFormed
                ELSE Built(conversion_factor(ua, ub)))

\* The product or quotient becomes the left operand of a further expression.
UnitChainLeft ==
    /\ uop \in {"multiply", "divide"}
    /\ ures.status = "ok"
    /\ terms(ures.result) < MaxTerms
    /\ ua' = ures.result
    /\ uop' = "operands"
    /\ ures' = NoMatch
    /\ UNCHANGED <<ub, beside_unit>>

\* The product or quotient becomes the right operand of a further expression.
UnitChainRight ==
    /\ uop \in {"multiply", "divide"}
    /\ ures.status = "ok"
    /\ terms(ures.result) < MaxTerms
    /\ ub' = ures.result
    /\ uop' = "operands"
    /\ ures' = NoMatch
    /\ UNCHANGED <<ua, beside_unit>>

UnitNext ==
    \/ UnitMultiply
    \/ UnitDivide
    \/ UnitFactor
    \/ UnitChainLeft
    \/ UnitChainRight

\* The unit variables while another part of the library is exercised.
UnitIdle ==
    /\ ua = named_unit(length_t, mag_one)
    /\ ub = named_unit(length_t, mag_one)
    /\ uop = "operands"
    /\ ures = NoMatch

---------------------------------------------------------------------------
(* Specification of the origin utilities.  Origins are the absolute origin *)
(* of length, relative origins stacked on it up to MaxDepth deep, structs  *)
(* derived from each of these, and the temperature origins of the SI       *)
(* catalogue with relative origins on absolute_zero_t; a step takes the     *)
(* root of the first origin or the offset from the first to the second in  *)
(* the caller's reference and representation.                              *)

MaxDepth == 2

\* The symbol tells apart units of one kind and magnitude.
symbol_unit(Symbol, QuantityKind, Mag) ==
    [symbol |-> Symbol, quantity_kind |-> QuantityKind, magnitude_type |-> Mag]

kelvin_t == symbol_unit("K", thermodynamic_temperature_t, mag_one)

kelvin_ref == reference(thermodynamic_temperature_t, kelvin_t)

\* A double literal n/d.
literal(n, d) == nearest("double", Real(n, d))

ice_point_offset_k == literal(27315, 100)

fahrenheit_zero_offset_k == literal(45967, 180)

absolute_zero_t ==
    derived_struct("absolute_zero_t",
                   absolute_point_origin(thermodynamic_temperature_t))

ice_point_t ==
    derived_struct("ice_point_t",
                   relative_point_origin(absolute_zero_t, kelvin_ref, "double",
                                         ice_point_offset_k))

fahrenheit_zero_t ==
    derived_struct("fahrenheit_zero_t",
                   relative_point_origin(absolute_zero_t, kelvin_ref, "double",
                                         fahrenheit_zero_offset_k))

metre_ref == reference(length_t, metre_t)

submetre_ref == reference(length_t, scaled_unit(metre_t, ratio(1, MaxScale)))

\* The relative origins declared directly on Base.
RelativeOn(Base) ==
    {relative_point_origin(Base, metre_ref, "double", Real(3, 1)),
     relative_point_origin(Base, submetre_ref, "int", Real(-1, 1))}

RECURSIVE StackedOrigins(_)
StackedOrigins(depth) ==
    IF depth = 0 THEN {absolute_point_origin(length_t)}
    ELSE LET below == StackedOrigins(depth - 1)
         IN  below \cup UNION {RelativeOn(b) : b \in below}

Origins ==
    StackedOrigins(MaxDepth)
        \cup {derived_struct("origin_t", o) : o \in StackedOrigins(MaxDepth)}
        \cup {absolute_zero_t, ice_point_t, fahrenheit_zero_t}
        \cup RelativeOn(absolute_zero_t)

OriginInit ==
    /\ ofrom \in Origins
    /\ oto \in Origins
    /\ oref \in {metre_ref, submetre_ref, kelvin_ref}
    /\ orep \in Reps
    /\ oop = "origins"
    /\ ores = NoMatch

OriginUsed(op, outcome) ==
    /\ oop = "origins"
    /\ oop' = op
    /\ ores' = outcome
    /\ UNCHANGED <<ofrom, oto, oref, orep, beside_origin>>

RootOrigin == OriginUsed("root_origin", Built(root_origin(ofrom)))

OriginOffset == OriginUsed("origin_offset", origin_offset(ofrom, oto, oref, orep))

OriginNext ==
    \/ RootOrigin
    \/ OriginOffset

\* The origin variables while another part of the library is exercised.
OriginIdle ==
    /\ ofrom = absolute_point_origin(length_t)
    /\ oto = absolute_point_origin(length_t)
    /\ oref = metre_ref
    /\ orep = "double"
    /\ oop = "origins"
    /\ ores = NoMatch

---------------------------------------------------------------------------
(* Specification of expressions over points.  Two operands are given, of   *)
(* which at least one is a point; a step writes pa + pb, pa - pb, pa * pb, *)
(* pa / pb, (pa + pb) - pb, pb + (pa - pb), or the explicit construction   *)
(* of a point of the type of pa from pb.                                   *)

width_ref == reference(width_t, metre_t)

PointRefs == {metre_ref, submetre_ref, width_ref}

datum_t == relative_point_origin(absolute_point_origin(length_t), metre_ref,
                                 "double", Real(3, 1))

PointOrigins ==
    {absolute_point_origin(length_t), datum_t, derived_struct("origin_t", datum_t)}

\* Values a representation holds exactly.
ValuesOf(Rep) ==
    IF is_floating_point_v(Rep)
    THEN {Real(-1, 1), Real(3, 1), Real(1, pow2(FloatDigits))}
    ELSE {Real(-1, 1), Real(3, 1)}

PointQuantities ==
    {quantity(ref, r, v) : ref \in PointRefs, r \in Reps, v \in ValuesOf("double")}
        \ {q \in [ref : PointRefs, rep : {"int"}, value_ : ValuesOf("double")] :
               q.value_ \notin ValuesOf("int")}

Points ==
    {quantity_point(q.ref, o, q.rep, q) : q \in PointQuantities, o \in PointOrigins}

PointInit ==
    /\ pa \in Points \cup PointQuantities
    /\ pb \in Points \cup PointQuantities
    /\ is_quantity_point(pa) \/ is_quantity_point(pb)
    /\ pop = "operands"
    /\ pres = NoMatch

PointWritten(op, outcome) ==
    /\ pop = "operands"
    /\ pop' = op
    /\ pres' = outcome
    /\ UNCHANGED <<pa, pb, beside_point>>

PointPlus == PointWritten("plus", point_expression("plus", pa, pb))

PointMinus == PointWritten("minus", point_expression("minus", pa, pb))

PointTimes == PointWritten("times", point_expression("times", pa, pb))

PointOver == PointWritten("over", point_expression("over", pa, pb))

\* (pa + pb) - pb
PlusThenMinus ==
    LET back(sum) ==
            IF sum.status = "ok" THEN point_expression("minus", sum.result, pb)
            ELSE sum
    IN  PointWritten("plus_minus", back(point_expression("plus", pa, pb)))

\* pb + (pa - pb)
MinusThenPlus ==
    LET back(difference) ==
            IF difference.status = "ok"
            THEN point_expression("plus", pb, difference.result)
            ELSE difference
    IN  PointWritten("minus_plus", back(point_expression("minus", pa, pb)))

\* quantity_point<Ref, Origin, Rep> { pb } for the type of the point pa
PointConvert ==
    /\ is_quantity_point(pa)
    /\ PointWritten("convert", point_constructor(pa.ref, pa.origin, pa.rep, pb))

PointNext ==
    \/ PointPlus
    \/ PointMinus
    \/ PointTimes
    \/ PointOver
    \/ PlusThenMinus
    \/ MinusThenPlus
    \/ PointConvert

\* The point variables while another part of the library is exercised.
PointIdle ==
    /\ pa = quantity(metre_ref, "double", Real(3, 1))
    /\ pb = quantity(metre_ref, "double", Real(3, 1))
    /\ pop = "operands"
    /\ pres = NoMatch

---------------------------------------------------------------------------
(* systems/si/temperature.hpp: temperature points and their conversions.   *)
(* A step hands a Kelvin, Celsius or Fahrenheit point to to_kelvin,        *)
(* to_celsius or to_fahrenheit, converts it to a scale and back to its     *)
(* own, or constructs a kelvin_point or a celsius_point from it.           *)

degree_celsius_t == symbol_unit("degC", thermodynamic_temperature_t, mag_one)

\* mag_ratio<5, 9>
degree_fahrenheit_t ==
    symbol_unit("degF", thermodynamic_temperature_t, [num |-> 5, den |-> 9])

celsius_ref == reference(thermodynamic_temperature_t, degree_celsius_t)

fahrenheit_ref == reference(thermodynamic_temperature_t, degree_fahrenheit_t)

fahrenheit_to_kelvin_factor == divides("double", literal(5, 1), literal(9, 1))

kelvin_to_fahrenheit_factor == divides("double", literal(9, 1), literal(5, 1))

fahrenheit_ice_point_offset == literal(32, 1)

rankine_offset == literal(45967, 100)

kelvin_point(Rep, v) ==
    quantity_point(kelvin_ref, absolute_zero_t, Rep, quantity(kelvin_ref, Rep, v))

celsius_point(Rep, v) ==
    quantity_point(celsius_ref, ice_point_t, Rep, quantity(celsius_ref, Rep, v))

fahrenheit_point(Rep, v) ==
    quantity_point(fahrenheit_ref, fahrenheit_zero_t, Rep,
                   quantity(fahrenheit_ref, Rep, v))

\* quantity_point::value()
point_value(Point) == Point.displacement_.value_

\* Template argument deduction of Alias<Rep> from the argument temp.
deduces(temp, Ref, Origin) == temp.ref = Ref /\ temp.origin = Origin

celsius_to_kelvin(temp_c) ==
    IF ~deduces(temp_c, celsius_ref, ice_point_t) THEN IllFormed
    ELSE Built(kelvin_point(temp_c.rep,
                   plus(temp_c.rep, point_value(temp_c),
                        static_cast(temp_c.rep, ice_point_offset_k))))

kelvin_to_celsius(temp_k) ==
    IF ~deduces(temp_k, kelvin_ref, absolute_zero_t) THEN IllFormed
    ELSE Built(celsius_point(temp_k.rep,
                   minus(temp_k.rep, point_value(temp_k),
                         static_cast(temp_k.rep, ice_point_offset_k))))

fahrenheit_to_kelvin(temp_f) ==
    IF ~deduces(temp_f, fahrenheit_ref, fahrenheit_zero_t) THEN IllFormed
    ELSE Built(kelvin_point(temp_f.rep,
                   multiplies(temp_f.rep,
                       plus(temp_f.rep, point_value(temp_f),
                            static_cast(temp_f.rep, rankine_offset)),
                       static_cast(temp_f.rep, fahrenheit_to_kelvin_factor))))

kelvin_to_fahrenheit(temp_k) ==
    IF ~deduces(temp_k, kelvin_ref, absolute_zero_t) THEN IllFormed
    ELSE Built(fahrenheit_point(temp_k.rep,
                   minus(temp_k.rep,
                       multiplies(temp_k.rep, point_value(temp_k),
                           static_cast(temp_k.rep, kelvin_to_fahrenheit_factor)),
                       static_cast(temp_k.rep, rankine_offset))))

celsius_to_fahrenheit(temp_c) ==
    IF ~deduces(temp_c, celsius_ref, ice_point_t) THEN IllFormed
    ELSE Built(fahrenheit_point(temp_c.rep,
                   plus(temp_c.rep,
                       multiplies(temp_c.rep, point_value(temp_c),
                           static_cast(temp_c.rep, kelvin_to_fahrenheit_factor)),
                       static_cast(temp_c.rep, fahrenheit_ice_point_offset))))

fahrenheit_to_celsius(temp_f) ==
    IF ~deduces(temp_f, fahrenheit_ref, fahrenheit_zero_t) THEN IllFormed
    ELSE Built(celsius_point(temp_f.rep,
                   multiplies(temp_f.rep,
                       minus(temp_f.rep, point_value(temp_f),
                             static_cast(temp_f.rep, fahrenheit_ice_point_offset)),
                       static_cast(temp_f.rep, fahrenheit_to_kelvin_factor))))

\* What a function returns when no branch of its `if constexpr` is taken.
ReturnsVoid == Built("void")

to_kelvin(temp) ==
    IF temp.origin = absolute_zero_t THEN Built(kelvin_point(temp.rep, point_value(temp)))
    ELSE IF temp.origin = ice_point_t THEN celsius_to_kelvin(temp)
    ELSE IF temp.origin = fahrenheit_zero_t THEN fahrenheit_to_kelvin(temp)
    ELSE ReturnsVoid

to_celsius(temp) ==
    IF temp.origin = ice_point_t THEN Built(celsius_point(temp.rep, point_value(temp)))
    ELSE IF temp.origin = absolute_zero_t THEN kelvin_to_celsius(temp)
    ELSE IF temp.origin = fahrenheit_zero_t THEN fahrenheit_to_celsius(temp)
    ELSE ReturnsVoid

to_fahrenheit(temp) ==
    IF temp.origin = fahrenheit_zero_t
    THEN Built(fahrenheit_point(temp.rep, point_value(temp)))
    ELSE IF temp.origin = absolute_zero_t THEN kelvin_to_fahrenheit(temp)
    ELSE IF temp.origin = ice_point_t THEN celsius_to_fahrenheit(temp)
    ELSE ReturnsVoid

TemperatureScales == {"kelvin", "celsius", "fahrenheit"}

\* to_kelvin, to_celsius or to_fahrenheit, by the name of the scale.
to_scale(scale, temp) ==
    IF scale = "kelvin" THEN to_kelvin(temp)
    ELSE IF scale = "celsius" THEN to_celsius(temp)
    ELSE to_fahrenheit(temp)

\* The scale of one of the three point aliases.
scale_of(temp) ==
    IF temp.origin = absolute_zero_t THEN "kelvin"
    ELSE IF temp.origin = ice_point_t THEN "celsius"
    ELSE "fahrenheit"

\* kelvin_pt, celsius_pt or fahrenheit_pt, by the name of the scale.
temperature_pt(scale, Rep, v) ==
    IF scale = "kelvin" THEN kelvin_point(Rep, v)
    ELSE IF scale = "celsius" THEN celsius_point(Rep, v)
    ELSE fahrenheit_point(Rep, v)

\* Readings handed to the factories: those the representation holds.
Readings(Rep) ==
    {v \in {Real(0, 1), Real(3, 1), Real(100, 1), Real(212, 1)} :
        static_cast(Rep, v) = v}

TemperaturePoints ==
    UNION {{temperature_pt(scale, r, v) : v \in Readings(r)} :
              scale \in TemperatureScales, r \in Reps}

TempInit ==
    /\ tp \in TemperaturePoints
    /\ top = "given"
    /\ tres = NoMatch

Converted(op, outcome) ==
    /\ top = "given"
    /\ top' = op
    /\ tres' = outcome
    /\ UNCHANGED <<tp, beside_temp>>

ToKelvin == Converted("to_kelvin", to_kelvin(tp))

ToCelsius == Converted("to_celsius", to_celsius(tp))

ToFahrenheit == Converted("to_fahrenheit", to_fahrenheit(tp))

\* to_<scale of tp>(to_<via>(tp))
ThereAndBack(via) ==
    LET back(there) ==
            IF there.status = "ok" THEN to_scale(scale_of(tp), there.result)
            ELSE there
    IN  back(to_scale(via, tp))

ViaKelvin == Converted("via_kelvin", ThereAndBack("kelvin"))

ViaCelsius == Converted("via_celsius", ThereAndBack("celsius"))

ViaFahrenheit == Converted("via_fahrenheit", ThereAndBack("fahrenheit"))

\* kelvin_point<Rep> { tp } for a Kelvin or Celsius point tp
KelvinPointFrom ==
    /\ scale_of(tp) \in {"kelvin", "celsius"}
    /\ Converted("kelvin_point",
                 point_constructor(kelvin_ref, absolute_zero_t, tp.rep, tp))

\* celsius_point<Rep> { tp } for a Kelvin or Celsius point tp
CelsiusPointFrom ==
    /\ scale_of(tp) \in {"kelvin", "celsius"}
    /\ Converted("celsius_point",
                 point_constructor(celsius_ref, ice_point_t, tp.rep, tp))

TempNext ==
    \/ ToKelvin
    \/ ToCelsius
    \/ ToFahrenheit
    \/ ViaKelvin
    \/ ViaCelsius
    \/ ViaFahrenheit
    \/ KelvinPointFrom
    \/ CelsiusPointFrom

\* The temperature variables while another part of the library is exercised.
TempIdle ==
    /\ tp = kelvin_point("double", Real(0, 1))
    /\ top = "given"
    /\ tres = NoMatch

---------------------------------------------------------------------------
(* Specification of the ratio comparisons: two ratios are given and a     *)
(* step evaluates one comparison trait on them.                            *)

OrderInit ==
    /\ ra \in Ratios \ {Failed}
    /\ rb \in Ratios \ {Failed}
    /\ rexp = 0
    /\ rop = "operand"
    /\ rres = NoMatch
    /\ rnum = 0
    /\ rden = 1

Compared(op, value) ==
    /\ rop = "operand"
    /\ rop' = op
    /\ rres' = value
    /\ UNCHANGED <<ra, rb, rexp, rnum, rden, beside_ratio>>

RatioEqual == Compared("equal", Built(ratio_equal_v(ra, rb)))

RatioNotEqual == Compared("not_equal", Built(ratio_not_equal_v(ra, rb)))

RatioLess == Compared("less", ratio_less_v(ra, rb))

RatioLessEqual == Compared("less_equal", ratio_less_equal_v(ra, rb))

RatioGreater == Compared("greater", ratio_greater_v(ra, rb))

RatioGreaterEqual == Compared("greater_equal", ratio_greater_equal_v(ra, rb))

OrderNext ==
    \/ RatioEqual
    \/ RatioNotEqual
    \/ RatioLess
    \/ RatioLessEqual
    \/ RatioGreater
    \/ RatioGreaterEqual

---------------------------------------------------------------------------
(* Specification of the overflow predicates: two integers of the type are *)
(* given and a step evaluates one of the predicates on them.               *)

IntInit ==
    /\ rnum \in Ints
    /\ rden \in Ints
    /\ ra = ratio_one
    /\ rb = ratio_one
    /\ rexp = 0
    /\ rop = "operand"
    /\ rres = NoMatch

Called(op, value) ==
    /\ rop = "operand"
    /\ rop' = op
    /\ rres' = value
    /\ UNCHANGED <<ra, rb, rexp, rnum, rden, beside_ratio>>

MulOverflow == Called("mul_overflow", mul_overflow_call(rnum, rden))

AddOverflow == Called("add_overflow", add_overflow_call(rnum, rden))

IntNext ==
    \/ MulOverflow
    \/ AddOverflow

---------------------------------------------------------------------------
(* quantity_spec.hpp: derived quantity specs.  A specialization            *)
(* derived_quantity_spec<numerator<...>, denominator<...>> is a type of    *)
(* its own, told from every other specialization by its two lists.  It is  *)
(* named by the number that follows the named specs at its place in the    *)
(* list of the specializations at hand, and its parent_spec is the root    *)
(* tag.                                                                    *)

\* The specializations for the products of two named specs.
DerivedSpecs ==
    [i \in 1 .. Len(isq_with_temperature) * Len(isq_with_temperature) |->
        [numerator_specs   |-> << ((i - 1) \div Len(isq_with_temperature)) + 1,
                                  ((i - 1) % Len(isq_with_temperature)) + 1 >>,
         denominator_specs |-> << >>]]

\* The catalogue with the parent_spec of every specialization after it.
isq_with_products ==
    isq_with_temperature \o [i \in DOMAIN DerivedSpecs |-> root_quantity_spec_tag]

derived_quantity_spec(Num, Den) ==
    Len(isq_with_temperature)
        + (CHOOSE i \in DOMAIN DerivedSpecs :
               DerivedSpecs[i] = [numerator_specs |-> Num, denominator_specs |-> Den])

is_derived_quantity_spec_v(T) == T > Len(isq_with_temperature)

\* flatten_spec<T>: the specialization for derived_quantity_spec, else the
\* primary template.
flatten_spec(T) ==
    IF is_derived_quantity_spec_v(T)
    THEN [num |-> DerivedSpecs[T - Len(isq_with_temperature)].numerator_specs,
          den |-> DerivedSpecs[T - Len(isq_with_temperature)].denominator_specs]
    ELSE [num |-> <<T>>, den |-> << >>]

merge_numerators(N1, N2) == N1 \o N2

merge_denominators(D1, D2) == D1 \o D2

\* self * other of quantity_spec
quantity_spec_multiply(Self, Other) ==
    LET self_flat  == flatten_spec(Self)
        other_flat == flatten_spec(Other)
        new_num    == merge_numerators(self_flat.num, other_flat.num)
        new_den    == merge_denominators(self_flat.den, other_flat.den)
    IN  derived_quantity_spec(new_num, new_den)

---------------------------------------------------------------------------
(* reference.hpp and quantity.hpp: products of quantities, and the          *)
(* compound assignments, which store into the member value_ of the left     *)
(* operand and return a reference to it.                                    *)

\* Ref1 {} * Ref2 {}
reference_multiply(Ref1, Ref2) ==
    LET made(new_unit) ==
            IF new_unit.status # "ok" THEN IllFormed
            ELSE Built(reference(quantity_spec_multiply(get_quantity_spec(Ref1),
                                                        get_quantity_spec(Ref2)),
                                 new_unit.result))
    IN  made(unit_multiply(get_unit(Ref1), get_unit(Ref2)))

\* lhs * rhs for two quantities
operator_multiply(lhs, rhs) ==
    LET common_rep == common_type_t(lhs.rep, rhs.rep)
        made(ref) ==
            IF ref.status # "ok" THEN IllFormed
            ELSE Built(quantity(ref.result, common_rep,
                                multiplies(common_rep,
                                           static_cast(common_rep, lhs.value_),
                                           static_cast(common_rep, rhs.value_))))
    IN  made(reference_multiply(lhs.ref, rhs.ref))

\* l * r where at least one operand is a quantity and none is a point: the
\* overload for two quantities, or one of the two scalar overloads.
operator_times(l, r) ==
    IF Quantity(l) /\ Quantity(r) THEN operator_multiply(l, r)
    ELSE IF Quantity(l) THEN scalar_operator("times", l, r)
    ELSE scalar_operator("times", r, l)

\* q += rhs and q -= rhs: the parameter is `const quantity &`, which binds
\* to a quantity of the same type or to the result of an implicit
\* conversion; the constructor from Rep is explicit.
plus_assign(q, rhs) ==
    IF ~Quantity(rhs) THEN NoMatch
    ELSE LET added(arg) ==
                 IF arg.status # "ok" THEN arg
                 ELSE Built(quantity(q.ref, q.rep,
                                     plus(q.rep, q.value_, arg.result.value_)))
         IN  added(converting_constructor(q.ref, q.rep, rhs))

minus_assign(q, rhs) ==
    IF ~Quantity(rhs) THEN NoMatch
    ELSE LET subtracted(arg) ==
                 IF arg.status # "ok" THEN arg
                 ELSE Built(quantity(q.ref, q.rep,
                                     minus(q.rep, q.value_, arg.result.value_)))
         IN  subtracted(converting_constructor(q.ref, q.rep, rhs))

\* q *= scalar and q /= scalar
times_assign(q, scalar) == scalar_operator("times", q, scalar)

over_assign(q, scalar) == scalar_operator("over", q, scalar)

\* What a division by zero can come to: the expression is rejected where a
\* constant expression is required; otherwise a floating-point type yields
\* an infinity or a NaN (n/0 here), and for an integer type the behaviour
\* is undefined: the program traps or goes on with some value.
Trapped == [status |-> "trapped"]

Outcomes(q, outcome) ==
    IF outcome.status # "divided_by_zero" THEN {outcome}
    ELSE IF is_floating_point_v(q.rep)
    THEN {IllFormed,
          Built(quantity(q.ref, q.rep,
                         [n |-> IF q.value_.n > 0 THEN 1
                                ELSE IF q.value_.n < 0 THEN -1 ELSE 0,
                          d |-> 0]))}
    ELSE {IllFormed, Trapped}
         \cup {Built(quantity(q.ref, q.rep, v)) : v \in {Real(0, 1), q.value_}}

---------------------------------------------------------------------------
(* Specification of products and compound assignments.  A quantity q1 and  *)
(* a second operand q2, a quantity or a value of an arithmetic type, are   *)
(* given; a step writes q1 * q2, q2 * q1, q1 / q2 for an arithmetic q2,    *)
(* (q1 * q2) == (q2 * q1), (q1 * q2) + (q2 * q1), or one of the compound   *)
(* assignments q1 += q2, q1 -= q2, q1 *= q2, q1 /= q2, which stores into   *)
(* q1.                                                                     *)

ProductRefs == {metre_ref, submetre_ref, width_ref, reference(energy_t, joule_t)}

ProductValues == {3, 5}

ProductQuantities ==
    {quantity(r, T, Real(v, 1)) : r \in ProductRefs, T \in Reps, v \in ProductValues}

Scalars ==
    {arithmetic("int", Real(v, 1)) : v \in {0, 2}}
        \cup {arithmetic("double", Real(n, 2)) : n \in {0, 1, 4, 5}}

ProductInit ==
    /\ q1 \in ProductQuantities
    /\ q2 \in ProductQuantities \cup Scalars
    /\ qop = "operands"
    /\ qres = NoMatch

\* The hierarchy variables of this specification: the catalogue with the
\* derived specs.
ProductKinds ==
    /\ parent_spec = isq_with_products
    /\ kfrom = 1
    /\ kto = 1
    /\ kop = "declared"
    /\ kres = FALSE

\* An expression whose value is taken from what the operators return.
Of(inner, outer(_, _)) ==
    IF inner[1].status # "ok" THEN inner[1]
    ELSE IF inner[2].status # "ok" THEN inner[2]
    ELSE outer(inner[1].result, inner[2].result)

Times == Written("times", operator_times(q1, q2))

TimesReversed == Written("times_reversed", operator_times(q2, q1))

Over ==
    /\ ~Quantity(q2)
    /\ \E outcome \in Outcomes(q1, scalar_operator("over", q1, q2)) :
           Written("over", outcome)

ProductsEqual ==
    Written("products_equal",
            Of(<<operator_times(q1, q2), operator_times(q2, q1)>>, operator_equal))

ProductsSum ==
    Written("products_sum",
            Of(<<operator_times(q1, q2), operator_times(q2, q1)>>, operator_plus))

\* A member function that stores into *this and returns *this.
Assigned(op, outcome) ==
    /\ qop = "operands"
    /\ qop' = op
    /\ qres' = outcome
    /\ q1' = IF outcome.status = "ok" THEN outcome.result ELSE q1
    /\ UNCHANGED <<q2, beside_qty>>

PlusAssign == Assigned("plus_assign", plus_assign(q1, q2))

MinusAssign == Assigned("minus_assign", minus_assign(q1, q2))

TimesAssign == Assigned("times_assign", times_assign(q1, q2))

OverAssign ==
    \E outcome \in Outcomes(q1, over_assign(q1, q2)) :
        Assigned("over_assign", outcome)

ProductNext ==
    \/ Times
    \/ TimesReversed
    \/ Over
    \/ ProductsEqual
    \/ ProductsSum
    \/ PlusAssign
    \/ MinusAssign
    \/ TimesAssign
    \/ OverAssign

---------------------------------------------------------------------------
(* Object layout.  Ref and Origin are template arguments of quantity and   *)
(* quantity_point: type aliases and static members take no storage, and    *)
(* the only non-static data member is value_, respectively displacement_.  *)

\* sizeof and alignment of the arithmetic types (int and float in four
\* bytes, double in eight).
size_of_rep(T) == IF T = "double" THEN 8 ELSE 4

\* sizeof of a class without base classes or virtual functions, given the
\* sizes of its non-static data members in declaration order: each member
\* lies at the next multiple of its alignment, and the whole is padded to
\* a multiple of the largest alignment.
class_size(member_sizes) ==
    LET round_up(n, a) == ((n + a - 1) \div a) * a
        RECURSIVE laid_out(_, _)
        laid_out(rest, at) ==
            IF rest = << >> THEN at
            ELSE laid_out(Tail(rest), round_up(at, Head(rest)) + Head(rest))
        RECURSIVE largest(_)
        largest(rest) ==
            IF rest = << >> THEN 1
            ELSE IF Head(rest) > largest(Tail(rest)) THEN Head(rest)
            ELSE largest(Tail(rest))
    IN  round_up(laid_out(member_sizes, 0), largest(member_sizes))

\* A quantity that keeps an object of its empty reference type beside value_.
quantity_members_storing_reference(Q) == <<size_of_rep(Q.rep), 1>>

\* class quantity { Rep value_; ... }
quantity_members(Q) == <<size_of_rep(Q.rep)>>

\* class quantity_point { quantity<Ref, Rep> displacement_; ... }
point_members(P) == <<class_size(quantity_members(P.displacement_))>>

\* sizeof(T) for a quantity or a point type, T given by an object of it
size_of(T) ==
    IF is_quantity_point(T) THEN class_size(point_members(T))
    ELSE class_size(quantity_members(T))

---------------------------------------------------------------------------
(* The specifications                                                      *)

InitRatio ==
    RatioInit /\ KindIdle /\ QtyIdle /\ UnitIdle /\ OriginIdle /\ PointIdle /\ TempIdle

SpecRatio == InitRatio /\ [][RatioNext]_vars

InitKind ==
    KindInit /\ RatioIdle /\ QtyIdle /\ UnitIdle /\ OriginIdle /\ PointIdle /\ TempIdle

SpecKind == InitKind /\ [][KindNext]_vars

InitQty ==
    QtyInit /\ RatioIdle /\ KindIdle /\ UnitIdle /\ OriginIdle /\ PointIdle /\ TempIdle

SpecQty == InitQty /\ [][QtyNext]_vars

InitUnit ==
    UnitInit /\ RatioIdle /\ KindIdle /\ QtyIdle /\ OriginIdle /\ PointIdle /\ TempIdle

SpecUnit == InitUnit /\ [][UnitNext]_vars

InitOrigin ==
    OriginInit /\ RatioIdle /\ KindIdle /\ QtyIdle /\ UnitIdle /\ PointIdle /\ TempIdle

SpecOrigin == InitOrigin /\ [][OriginNext]_vars

InitPoint ==
    PointInit /\ RatioIdle /\ KindIdle /\ QtyIdle /\ UnitIdle /\ OriginIdle /\ TempIdle

SpecPoint == InitPoint /\ [][PointNext]_vars

InitTemp ==
    TempInit /\ RatioIdle /\ KindIdle /\ QtyIdle /\ UnitIdle /\ OriginIdle /\ PointIdle

SpecTemp == InitTemp /\ [][TempNext]_vars

InitOrder ==
    OrderInit /\ KindIdle /\ QtyIdle /\ UnitIdle /\ OriginIdle /\ PointIdle /\ TempIdle

SpecOrder == InitOrder /\ [][OrderNext]_vars

InitInt ==
    IntInit /\ KindIdle /\ QtyIdle /\ UnitIdle /\ OriginIdle /\ PointIdle /\ TempIdle

SpecInt == InitInt /\ [][IntNext]_vars

InitProduct ==
    ProductInit /\ RatioIdle /\ ProductKinds /\ UnitIdle /\ OriginIdle /\ PointIdle /\ TempIdle

SpecProduct == InitProduct /\ [][ProductNext]_vars

---------------------------------------------------------------------------
(* Exact arithmetic over the mathematical integers, used to state what the *)
(* operations are meant to compute.                                        *)

\* The greatest common divisor of two naturals, not both zero.
ExactGcd(a, b) ==
    CHOOSE g \in 1 .. (a + b) :
        /\ a % g = 0
        /\ b % g = 0
        /\ \A h \in (g + 1) .. (a + b) : ~(a % h = 0 /\ b % h = 0)

Canonical(R) == R.den > 0 /\ ExactGcd(Magnitude(R.num), R.den) = 1

\* R denotes the rational n / d.
Denotes(R, n, d) == R.num * d = n * R.den

SameRational(R1, R2) == R1.num * R2.den = R2.num * R1.den

ExactPow(b, e) == IF e = 0 THEN 1 ELSE IF e = 1 THEN b ELSE b ^ e

---------------------------------------------------------------------------
(* Claims about the ratio algebra (SpecRatio)                              *)

\* C2: every ratio value is in canonical form (den > 0, gcd(|num|, den) = 1):
\* the operands, the ratio<n, d> written out (which denotes n / d), and the
\* result of every operation of a sequence; and two ratio values denote the
\* same rational exactly when their (num, den) pairs are identical.
C2_RatioCanonical ==
    /\ \A R \in {ra, rb, rres} : R # Failed => Canonical(R)
    /\ rop = "ratio" /\ rres # Failed => Denotes(rres, rnum, rden)
    /\ \A R1, R2 \in {ra, rb, rres} :
          R1 # Failed /\ R2 # Failed => (SameRational(R1, R2) <=> R1 = R2)

\* C2 witness: a ratio<n, d> with a negative denominator and a common factor
\* was written out and normalised.
C2_Witness ==
    /\ rop = "ratio"
    /\ rden < 0
    /\ rnum # 0
    /\ rres # Failed
    /\ ExactGcd(Magnitude(rnum), Magnitude(rden)) > 1

\* The mathematical values of the intermediate products and sums of the
\* operation applied last.
Intermediates ==
    CASE rop = "ratio" ->
           {(IF rden < 0 THEN -rnum ELSE rnum), Magnitude(rden), Magnitude(rnum)}
      [] rop \in {"add", "subtract"} ->
           LET n2 == IF rop = "add" THEN rb.num ELSE -rb.num
               g  == ExactGcd(ra.den, rb.den)
               t1 == ra.num * (rb.den \div g)
               t2 == n2 * (ra.den \div g)
           IN  {n2, t1, t2, t1 + t2, ra.den * (rb.den \div g)}
      [] rop = "multiply" ->
           LET g1 == ExactGcd(Magnitude(ra.num), rb.den)
               g2 == ExactGcd(Magnitude(rb.num), ra.den)
           IN  {(ra.num \div g1) * (rb.num \div g2),
                (ra.den \div g2) * (rb.den \div g1)}
      [] rop = "divide" /\ rb.num # 0 ->
           LET inum == IF rb.num < 0 THEN -rb.den ELSE rb.den
               iden == Magnitude(rb.num)
               g1 == ExactGcd(Magnitude(ra.num), iden)
               g2 == ExactGcd(Magnitude(inum), ra.den)
           IN  {(ra.num \div g1) * (inum \div g2),
                (ra.den \div g2) * (iden \div g1)}
      [] rop = "power" /\ (rexp >= 0 \/ ra.num # 0) ->
           {ExactPow(ra.num, Magnitude(rexp)), ExactPow(ra.den, Magnitude(rexp))}
      [] rop \in {"negate", "abs"} -> {-ra.num, Magnitude(ra.num)}
      [] OTHER -> {}

\* The result of the operation applied last denotes the exact rational.
ExactResult ==
    CASE rop = "ratio"    -> Denotes(rres, rnum, rden)
      [] rop = "add"      ->
           Denotes(rres, ra.num * rb.den + rb.num * ra.den, ra.den * rb.den)
      [] rop = "subtract" ->
           Denotes(rres, ra.num * rb.den - rb.num * ra.den, ra.den * rb.den)
      [] rop = "multiply" -> Denotes(rres, ra.num * rb.num, ra.den * rb.den)
      [] rop = "divide"   -> Denotes(rres, ra.num * rb.den, ra.den * rb.num)
      [] rop = "power"    ->
           IF rexp >= 0
           THEN Denotes(rres, ExactPow(ra.num, rexp), ExactPow(ra.den, rexp))
           ELSE Denotes(rres, ExactPow(ra.den, -rexp), ExactPow(ra.num, -rexp))
      [] rop = "negate"   -> Denotes(rres, -ra.num, ra.den)
      [] rop = "abs"      -> Denotes(rres, Magnitude(ra.num), ra.den)
      [] rop = "inverse"  -> Denotes(rres, ra.den, ra.num)
      [] OTHER            -> TRUE

OperandsBuilt ==
    IF rop = "ratio" THEN TRUE
    ELSE IF rop \in {"add", "subtract", "multiply", "divide"}
         THEN ra # Failed /\ rb # Failed
         ELSE ra # Failed

\* C3: when an intermediate product or sum of a ratio construction or
\* operation exceeds the range of the integer type the build fails, and a
\* result that is returned denotes the exact rational (it was not computed
\* from a wrapped or truncated integer).
C3_RatioOverflowFails ==
    /\ OperandsBuilt /\ (\E x \in Intermediates : ~Representable(x))
          => rres = Failed
    /\ OperandsBuilt /\ rres # Failed => ExactResult

\* C3 witness: a multiplication whose operands are ratios and whose
\* numerator product leaves the range was attempted.
C3_Witness ==
    /\ rop = "multiply"
    /\ ra # Failed
    /\ rb # Failed
    /\ \E x \in Intermediates : ~Representable(x)
    /\ rres = Failed

---------------------------------------------------------------------------
(* The hierarchy, read directly off parent_spec: the specs reached from s  *)
(* by following parent links zero or more times.                           *)

AncestorsOrSelf(s) ==
    LET up[k \in 0 .. Cardinality(DeclaredSpecs)] ==
            IF k = 0 THEN {s}
            ELSE up[k - 1] \cup
                 ({parent_spec[x] : x \in up[k - 1]} \ {root_quantity_spec_tag})
    IN  up[Cardinality(DeclaredSpecs)]

CommonAncestors(a, b) == AncestorsOrSelf(a) \cap AncestorsOrSelf(b)

\* C4: implicitly_convertible_v<From, To> is true exactly when From and To
\* are the same spec or To is a direct or indirect ancestor of From; for two
\* distinct specs it is never true in both directions, and it holds from a
\* child to its ancestor but not from the ancestor to the child.
C4_ImplicitIffEqualOrAncestor ==
    kop = "implicitly_convertible" =>
        /\ kres = (kto \in AncestorsOrSelf(kfrom))
        /\ (kfrom # kto /\ kres) => ~implicitly_convertible_v(kto, kfrom)

\* C4 witness: an upcast over more than one level has been accepted.
C4_Witness ==
    /\ kop = "implicitly_convertible"
    /\ kres = TRUE
    /\ kfrom # kto
    /\ parent_spec[kfrom] # kto

\* C5: common_quantity_spec<Q1, Q2> is the nearest spec that both Q1 and Q2
\* equal or descend from; it is Q1 when the two are equal, the ancestor when
\* one descends from the other, the nearest shared ancestor otherwise, the
\* same for either argument order, and has no type when the two specs share
\* no ancestor.
C5_CommonSpecIsNearestCommonAncestor ==
    kop = "common_quantity_spec" =>
        /\ (CommonAncestors(kfrom, kto) = {}) = (kres = NoType)
        /\ kres # NoType =>
              /\ kres \in CommonAncestors(kfrom, kto)
              /\ \A c \in CommonAncestors(kfrom, kto) : c \in AncestorsOrSelf(kres)
        /\ common_quantity_spec(kto, kfrom) = kres

\* C5 witness: two specs neither of which descends from the other, whose
\* nearest shared ancestor is not a root.
C5_Witness ==
    /\ kop = "common_quantity_spec"
    /\ kres \in DeclaredSpecs
    /\ kres \notin {kfrom, kto}
    /\ parent_spec[kres] # root_quantity_spec_tag


---------------------------------------------------------------------------
(* Quantities, read off the operands q1 and q2.                            *)

Spec1 == q1.ref.quantity_spec

Spec2 == q2.ref.quantity_spec

Unrelated(a, b) == a \notin AncestorsOrSelf(b) /\ b \notin AncestorsOrSelf(a)

NearestCommonAncestor(a, b) ==
    CHOOSE c \in CommonAncestors(a, b) :
        \A d \in CommonAncestors(a, b) : d \in AncestorsOrSelf(c)

RepRank(T) == IF T = "int" THEN 0 ELSE IF T = "float" THEN 1 ELSE 2

WiderRep(T1, T2) == IF RepRank(T1) >= RepRank(T2) THEN T1 ELSE T2

\* value * magnitude(from) / magnitude(to), as an exact rational.
Rescaled(value, from, to) ==
    Real(value.n * from.magnitude_type.num * to.magnitude_type.den,
         value.d * from.magnitude_type.den * to.magnitude_type.num)

\* magnitude(from) / magnitude(to) in lowest terms is within ratio_int_t.
FactorFits(from, to) ==
    LET f == Rescaled(Real(1, 1), from, to)
    IN  Representable(f.n) /\ Representable(f.d)

\* magnitude(from) / magnitude(to) as a value of the floating-point type T:
\* the quotient of the numerator and the denominator of the reduced ratio.
Scale(T, from, to) ==
    LET f == Rescaled(Real(1, 1), from, to)
    IN  divides(T, static_cast(T, Real(f.n, 1)), static_cast(T, Real(f.d, 1)))

MixedOperators == {"plus", "minus", "equal", "spaceship"}

C7_ImplicitConversionNeverNarrows ==
    (qop = "convert" /\ qres.status = "ok") =>
        /\ Spec1 \in AncestorsOrSelf(Spec2)
        /\ ~(q2.rep = "double" /\ q1.rep = "float")
        /\ ~(is_floating_point_v(q2.rep) /\ q1.rep = "int")

\* C8: for a of Ref1 and b of a different but compatible Ref2, a + b and
\* a - b have the reference (nearest common spec, unit(Ref1)), the common
\* numeric type of the two representations, and the value
\* a.value +/- b.value * magnitude(unit(Ref2)) / magnitude(unit(Ref1)) as
\* computed in that common type; the expression builds whenever the common
\* type is a floating-point type and the factor is within ratio_int_t.
C8_MixedSumInLeftUnit ==
    /\ (/\ qop \in {"plus", "minus"} /\ q1.ref # q2.ref
        /\ ~Unrelated(Spec1, Spec2)
        /\ is_floating_point_v(WiderRep(q1.rep, q2.rep))
        /\ FactorFits(get_unit(q2.ref), get_unit(q1.ref))) => qres.status = "ok"
    /\ (qop \in {"plus", "minus"} /\ q1.ref # q2.ref /\ qres.status = "ok") =>
        LET c == WiderRep(q1.rep, q2.rep)
            a == static_cast(c, q1.value_)
            b == multiplies(c, static_cast(c, q2.value_),
                            Scale(c, get_unit(q2.ref), get_unit(q1.ref)))
        IN  /\ qres.result.ref.quantity_spec = NearestCommonAncestor(Spec1, Spec2)
            /\ qres.result.ref.unit = get_unit(q1.ref)
            /\ qres.result.rep = c
            /\ qop = "plus" => qres.result.value_ = plus(c, a, b)
            /\ qop = "minus" => qres.result.value_ = minus(c, a, b)

\* C8 witness: a sum of a child-spec quantity and a parent-spec quantity in
\* a unit of another magnitude, with different representations.
C8_Witness ==
    /\ qop = "plus"
    /\ qres.status = "ok"
    /\ Spec1 # Spec2
    /\ q1.rep # q2.rep
    /\ get_magnitude(get_unit(q1.ref)) # get_magnitude(get_unit(q2.ref))
    /\ qres.result.value_ # RealAdd(q1.value_, q2.value_)

\* C9: adding two quantities whose specs are children of one parent (width
\* + height) is accepted and yields a quantity of the parent spec (length).
C9_SiblingSumAccepted ==
    (/\ qop = "plus"
     /\ Spec1 # Spec2
     /\ parent_spec[Spec1] # root_quantity_spec_tag
     /\ parent_spec[Spec1] = parent_spec[Spec2]
     /\ is_floating_point_v(WiderRep(q1.rep, q2.rep))
     /\ get_unit(q1.ref) = get_unit(q2.ref)) =>
        /\ qres.status = "ok"
        /\ qres.result.ref.quantity_spec = parent_spec[Spec1]

\* C10: q.in(U) and q.force_in(U) are applicable only when U measures the
\* same quantity kind as the unit of q, and return a quantity with the spec
\* of q, the unit U and the value q.value * magnitude(unit(q)) / magnitude(U)
\* as computed in the representation of q.
C10_InOnlyOntoSameKind ==
    (qop \in {"in", "force_in"} /\ qres.status = "ok") =>
        /\ get_unit(q2.ref).quantity_kind = get_unit(q1.ref).quantity_kind
        /\ qres.result.ref = reference(Spec1, get_unit(q2.ref))
        /\ qres.result.value_ =
              multiplies(q1.rep, q1.value_,
                         Scale(q1.rep, get_unit(q1.ref), get_unit(q2.ref)))


\* The unit roundoff of T: the largest relative error of one rounding.
roundoff(T) == Real(1, pow2(digits(T)))

RealAbs(x) == IF x.n < 0 THEN Real(-x.n, x.d) ELSE x

RealLeq(x, y) == x.n * y.d <= y.n * x.d

\* x is within `roundings` roundings in T of y, each of relative error at
\* most u = roundoff(T), measured against the magnitude `scale`:
\* |x - y| <= (roundings + 1) * u * scale, which covers (1 + u)^k - 1 for the
\* numbers of roundings and the precisions used here.
WithinRoundingsOf(T, roundings, x, y, scale) ==
    RealLeq(RealAbs(RealSub(x, y)),
            RealMul(RealMul(Real(roundings + 1, 1), roundoff(T)), scale))

WithinRoundings(T, roundings, x, y) ==
    WithinRoundingsOf(T, roundings, x, y, RealAbs(y))

\* C11: q.in(U2).in(U1) for a quantity q in unit U1 has the reference and the
\* representation of q, and its value is the value of q within the roundings
\* of the two factors and the two products in the representation of q; the
\* expression builds when that representation is a floating-point type and
\* both factors are within ratio_int_t.
C11_RoundTripWithinPrecision ==
    /\ (/\ qop = "in_in"
        /\ is_floating_point_v(q1.rep)
        /\ FactorFits(get_unit(q1.ref), get_unit(q2.ref))
        /\ FactorFits(get_unit(q2.ref), get_unit(q1.ref))) => qres.status = "ok"
    /\ (qop = "in_in" /\ qres.status = "ok") =>
        /\ qres.result.ref = q1.ref
        /\ qres.result.rep = q1.rep
        /\ WithinRoundings(q1.rep, 2 + 2, qres.result.value_, q1.value_)

\* C11 witness: a round trip through a unit whose factor is not a value of
\* the representation, so that the intermediate quantity was rounded.
C11_Witness ==
    /\ qop = "in_in"
    /\ qres.status = "ok"
    /\ in(q1, get_unit(q2.ref)).result.value_
          # Rescaled(q1.value_, get_unit(q1.ref), get_unit(q2.ref))


---------------------------------------------------------------------------
(* Claims about the unit algebra (SpecUnit)                                *)

\* C12: the conversion factor from a unit to itself is the ratio 1, and the
\* factor from A to B times the factor from B to A is the ratio 1, the
\* factors being the exact ratios magnitude(From) / magnitude(To); the
\* factor of a unit of non-zero magnitude to itself always evaluates.
C12_ConversionFactorIdentities ==
    /\ (uop = "conversion_factor_t" /\ ures.status = "ok") =>
        /\ ua = ub => ures.result = ratio_one
        /\ conversion_factor(ub, ua) # Failed =>
               ratio_multiply(ures.result, conversion_factor(ub, ua)) = ratio_one
    /\ (uop = "conversion_factor_t" /\ ua = ub /\ get_magnitude(ua).num # 0) =>
        ures.status = "ok"

\* C12 witness: the factor between a derived unit and a unit of another
\* magnitude has been taken, is not 1, and the opposite factor exists.
C12_Witness ==
    /\ uop = "conversion_factor_t"
    /\ ures.status = "ok"
    /\ ures.result # ratio_one
    /\ terms(ua) > 1
    /\ conversion_factor(ub, ua) # Failed

\* The product over the terms of magnitude(term.unit) ^ term.power, as a
\* fraction n / d of unbounded integers.
RECURSIVE TermsProduct(_)
TermsProduct(Terms) ==
    IF Terms = <<>> THEN [n |-> 1, d |-> 1]
    ELSE LET t    == Head(Terms)
             m    == get_magnitude(t.unit)
             rest == TermsProduct(Tail(Terms))
         IN  IF t.power >= 0
             THEN [n |-> ExactPow(m.num, t.power) * rest.n,
                   d |-> ExactPow(m.den, t.power) * rest.d]
             ELSE [n |-> ExactPow(m.den, -t.power) * rest.n,
                   d |-> ExactPow(m.num, -t.power) * rest.d]

MagnitudeIsTermProduct(U) ==
    LET over  == TermsProduct(U.numerator_terms)
        under == TermsProduct(U.denominator_terms)
    IN  /\ over.d * under.n # 0
        /\ Canonical(get_magnitude(U))
        /\ Denotes(get_magnitude(U), over.n * under.d, over.d * under.n)

UnitBuilt == uop \in {"multiply", "divide"} /\ ures.status = "ok"

DerivedUnitsAtHand ==
    {u \in {ua, ub} \cup (IF UnitBuilt THEN {ures.result} ELSE {}) :
        "numerator_terms" \in DOMAIN u}

\* C13: the magnitude of every derived unit, however it was built from
\* multiplications and divisions, is the product over its numerator terms of
\* magnitude(term.unit) ^ term.power divided by the same product over its
\* denominator terms; the magnitude of a product of two units is the product
\* of their magnitudes and the magnitude of a quotient is their quotient.
C13_DerivedMagnitudeIsTermProduct ==
    /\ \A u \in DerivedUnitsAtHand : MagnitudeIsTermProduct(u)
    /\ (uop = "multiply" /\ ures.status = "ok") =>
        get_magnitude(ures.result)
            = ratio_multiply(get_magnitude(ua), get_magnitude(ub))
    /\ (uop = "divide" /\ ures.status = "ok") =>
        get_magnitude(ures.result)
            = ratio_divide(get_magnitude(ua), get_magnitude(ub))

\* C13 witness: a quotient of MaxTerms terms, with terms above and below,
\* operands of different magnitudes and a magnitude other than 1.
C13_Witness ==
    /\ uop = "divide"
    /\ ures.status = "ok"
    /\ terms(ures.result) = MaxTerms
    /\ ures.result.numerator_terms # <<>>
    /\ ures.result.denominator_terms # <<>>
    /\ get_magnitude(ua) # get_magnitude(ub)
    /\ get_magnitude(ures.result) # mag_one

---------------------------------------------------------------------------
(* Claims about point origins (SpecOrigin)                                 *)

\* O is relative and B is its base origin.
BasedOn(O, B) == is_relative_origin_v(O) /\ members(O).base_origin = B

\* The offset of the relative origin O, negated or not, expressed in Ref
\* as a value of the floating-point type Rep.
OffsetOf(O, negated, Ref, Rep) ==
    LET off    == offset(O)
        signed == IF negated THEN Real(-off.value_.n, off.value_.d) ELSE off.value_
        c      == common_type_t(off.rep, Rep)
    IN  quantity(Ref, Rep,
                 static_cast(Rep, multiplies(c, signed,
                                             Scale(Rep, get_unit(off.ref), get_unit(Ref)))))

\* C16: in a floating-point representation, origin_offset(From, To) is 0 in
\* the caller's reference when From and To are the same origin, minus the
\* offset of From when To is the base origin of From, and plus the offset
\* of To when From is the base origin of To, for every origin, the named
\* origins of the catalogue included.
C16_OffsetBetweenLinkedOrigins ==
    (oop = "origin_offset" /\ is_floating_point_v(orep)) =>
        /\ ofrom = oto => ores = Built(quantity(oref, orep, Real(0, 1)))
        /\ BasedOn(ofrom, oto) => ores = Built(OffsetOf(ofrom, TRUE, oref, orep))
        /\ BasedOn(oto, ofrom) => ores = Built(OffsetOf(oto, FALSE, oref, orep))

\* The origin reached from Origin by following the member base_origin.
RECURSIVE root_origin_by_member(_)
root_origin_by_member(Origin) ==
    IF is_relative_origin_v(Origin)
    THEN root_origin_by_member(members(Origin).base_origin)
    ELSE Origin

\* C19: root_origin(O) is the absolute origin reached by following the
\* base_origin members from O, O itself when O is absolute.
C19_RootOriginIsAbsolute ==
    oop = "root_origin" =>
        /\ ores.status = "ok"
        /\ ores.result = root_origin_by_member(ofrom)
        /\ is_absolute_origin_v(ores.result)

\* C20: origin_offset(From, To) for two distinct origins neither of which
\* is the base origin of the other does not build; it never yields a value.
C20_UnlinkedOriginsFailStatically ==
    (/\ oop = "origin_offset"
     /\ ofrom # oto
     /\ ~BasedOn(ofrom, oto)
     /\ ~BasedOn(oto, ofrom)) => ores.status # "ok"

\* C20 witness: the offset between two relative origins on one base, asked
\* for in a floating-point representation, was rejected.
C20_Witness ==
    /\ oop = "origin_offset"
    /\ ores = IllFormed
    /\ is_floating_point_v(orep)
    /\ ofrom # oto
    /\ specializes(ofrom, "relative_point_origin")
    /\ specializes(oto, "relative_point_origin")
    /\ ofrom.base_origin = oto.base_origin

---------------------------------------------------------------------------
(* Claims about points (SpecPoint)                                         *)

\* pa is a point and pb a quantity of its reference and representation.
PointAndDelta ==
    /\ is_quantity_point(pa)
    /\ Quantity(pb)
    /\ pb.ref = pa.ref
    /\ pb.rep = pa.rep

\* pa and pb are points of one reference, origin and representation.
TwoPointsOfOneType ==
    is_quantity_point(pa) /\ is_quantity_point(pb) /\ same_point_type(pa, pb)

\* The magnitudes of the two operands, added.
OperandScale ==
    LET a == pa.displacement_.value_
        b == IF is_quantity_point(pb) THEN pb.displacement_.value_ ELSE pb.value_
    IN  RealAdd(RealAbs(a), RealAbs(b))

\* The exact sum (when pb is a quantity) or difference (when pb is a point)
\* of the operands is a value of the representation of pa.
IntermediateIsExact ==
    LET a == pa.displacement_.value_
        x == IF is_quantity_point(pb) THEN RealSub(a, pb.displacement_.value_)
             ELSE RealAdd(a, pb.value_)
    IN  static_cast(pa.rep, x) = x

LawApplies ==
    \/ pop = "plus_minus" /\ PointAndDelta
    \/ pop = "minus_plus" /\ TwoPointsOfOneType

\* C14 as stated: for points p, p1, p2 of one reference and origin and a
\* quantity d of that reference, (p + d) - d == p and p2 + (p1 - p2) == p1.
C14_PointLawsExact ==
    LawApplies =>
        /\ pres.status = "ok"
        /\ point_equal(pres.result, pa) = Built(TRUE)

\* C14 amended: (p + d) - d and p2 + (p1 - p2) are points of the type of p
\* (of p1); they equal p (p1) when the representation is an integer type or
\* the intermediate sum (difference) is a value of the representation, and
\* otherwise lie within the two roundings of the two operations, taken
\* relative to |p| + |d| (|p1| + |p2|).
C14_PointLawsWithinRounding ==
    LawApplies =>
        /\ pres.status = "ok"
        /\ is_quantity_point(pres.result)
        /\ same_point_type(pres.result, pa)
        /\ (~is_floating_point_v(pa.rep) \/ IntermediateIsExact)
               => point_equal(pres.result, pa) = Built(TRUE)
        /\ is_floating_point_v(pa.rep)
               => WithinRoundingsOf(pa.rep, 2, pres.result.displacement_.value_,
                                    pa.displacement_.value_, OperandScale)

\* C14 witness: (p + d) - d was evaluated in a floating-point representation
\* and differs from p.
C14_Witness ==
    /\ pop = "plus_minus"
    /\ PointAndDelta
    /\ pres.status = "ok"
    /\ point_equal(pres.result, pa) = Built(FALSE)

\* C15: of the expressions lhs op rhs with op one of + - * / and at least
\* one point among the operands, only point - point (a quantity), and
\* point + quantity and point - quantity (a point of the origin of the left
\* operand) type-check, and they do for operands of one reference and
\* representation; point + point is rejected whether the origins are equal
\* or not.
C15_OnlyThreePointOperations ==
    pop \in {"plus", "minus", "times", "over"} =>
        /\ pres.status = "ok" =>
              \/ /\ pop = "minus"
                 /\ is_quantity_point(pa) /\ is_quantity_point(pb)
                 /\ Quantity(pres.result)
              \/ /\ pop \in {"plus", "minus"}
                 /\ is_quantity_point(pa) /\ Quantity(pb)
                 /\ is_quantity_point(pres.result)
                 /\ pres.result.origin = pa.origin
        /\ (pop = "minus" /\ TwoPointsOfOneType) => pres.status = "ok"
        /\ (pop \in {"plus", "minus"} /\ PointAndDelta) => pres.status = "ok"
        /\ (pop = "plus" /\ is_quantity_point(pa) /\ is_quantity_point(pb))
               => pres.status # "ok"

\* C15 witness: the sum of two points of one type was rejected.
C15_Witness ==
    /\ pop = "plus"
    /\ TwoPointsOfOneType
    /\ pres = IllFormed

\* The displacement C17 describes for a point converted to Ref, Origin, Rep.
ConvertedDisplacement(Ref, Origin, Rep, other) ==
    LET scaled == quantity(Ref, Rep,
                      static_cast(Rep, multiplies(common_type_t(other.rep, Rep),
                                                  other.displacement_.value_,
                                                  Scale(Rep, get_unit(other.ref),
                                                        get_unit(Ref)))))
    IN  IF Origin # other.origin
        THEN operator_plus(scaled,
                           origin_offset(other.origin, Origin, Ref, Rep).result).result
        ELSE scaled

\* C17: converting a point to another reference, origin or floating-point
\* representation builds for every pair of origins that are equal or have
\* an origin_offset, and yields the displacement scaled by the conversion
\* factor of the units, plus the origin offset if and only if the origins
\* differ.
C17_PointConversion ==
    (/\ pop = "convert"
     /\ is_quantity_point(pb)
     /\ is_floating_point_v(pa.rep)
     /\ \/ pa.origin = pb.origin
        \/ origin_offset(pb.origin, pa.origin, pa.ref, pa.rep).status = "ok")
    => pres = Built(quantity_point(pa.ref, pa.origin, pa.rep,
                        ConvertedDisplacement(pa.ref, pa.origin, pa.rep, pb)))

---------------------------------------------------------------------------
(* Claims about temperature points (SpecTemp)                              *)

\* The temperature in kelvins that a reading v on a scale denotes.
InKelvin(scale, v) ==
    IF scale = "kelvin" THEN v
    ELSE IF scale = "celsius" THEN RealAdd(v, Real(27315, 100))
    ELSE RealMul(RealAdd(v, Real(45967, 100)), Real(5, 9))

Denoted(Point) == InKelvin(scale_of(Point), point_value(Point))

\* x and y, in kelvins, agree within the tolerance of the representation:
\* the roundings of the operations of a conversion there and back (at most
\* 8), relative to the magnitudes involved (the reading and the offset of
\* the Fahrenheit zero), or one unit for each truncation in an integer
\* type (at most 4).
SameTemperature(Rep, x, y) ==
    IF is_floating_point_v(Rep)
    THEN WithinRoundingsOf(Rep, 8, x, y, RealAdd(RealAbs(y), Real(45967, 100)))
    ELSE RealLeq(RealAbs(RealSub(x, y)), Real(4, 1))

ScaleConverted == top \in {"to_kelvin", "to_celsius", "to_fahrenheit"}

ConvertedAndBack == top \in {"via_kelvin", "via_celsius", "via_fahrenheit"}

PointConstructed == top \in {"kelvin_point", "celsius_point"}

\* C18: a conversion of a temperature point between the Kelvin, Celsius and
\* Fahrenheit scales, by to_kelvin, to_celsius, to_fahrenheit or by
\* constructing a point of the other scale, yields a point that denotes the
\* same temperature within the tolerance of the representation (0 degC
\* gives 273.15 K, 212 degF gives 373.15 K), and a conversion there and
\* back returns a point of the original scale with the original reading
\* within that tolerance.
C18_TemperaturePreserved ==
    /\ (ScaleConverted \/ PointConstructed) =>
           /\ tres.status = "ok"
           /\ SameTemperature(tp.rep, Denoted(tres.result), Denoted(tp))
    /\ ConvertedAndBack =>
           /\ tres.status = "ok"
           /\ scale_of(tres.result) = scale_of(tp)
           /\ SameTemperature(tp.rep, Denoted(tres.result), Denoted(tp))

---------------------------------------------------------------------------
(* Claims about the laws of the ratio algebra (SpecRatio)                  *)

\* The ratios handed to an operation: every ratio<n, d> that builds.
BuiltRatios == Ratios \ {Failed}

\* C21: for all ratios a and b, a + b and b + a are the same ratio and
\* a * b and b * a are the same ratio, and either side fails to build (an
\* overflow in it) exactly when the other side does.
C21_AddAndMultiplyCommute ==
    /\ rop = "add" /\ OperandsBuilt => rres = ratio_add(rb, ra)
    /\ rop = "multiply" /\ OperandsBuilt => rres = ratio_multiply(rb, ra)

\* C21 witness: two different ratios with different denominators were
\* added and the sum was built.
C21_Witness ==
    /\ rop = "add"
    /\ OperandsBuilt
    /\ ra.den # rb.den
    /\ ra.num # 0
    /\ rb.num # 0
    /\ rres # Failed

\* (a + b) + c for the sum a + b just formed, and a + (b + c).
LeftSum(c) == ratio_add(rres, c)

RightSum(c) == ratio_add(ra, ratio_add(rb, c))

\* C22 as stated: for all ratios a, b and c, (a + b) + c == a + (b + c).
C22_AddAssociative ==
    rop = "add" /\ OperandsBuilt =>
        \A c \in BuiltRatios : LeftSum(c) = RightSum(c)

\* C22 amended: for all ratios a, b and c for which both (a + b) + c and
\* a + (b + c) build, the two are the same ratio; one of them can fail for
\* an overflow in a partial sum that the other does not form.
C22_AddAssociativeWhenBuilt ==
    rop = "add" /\ OperandsBuilt =>
        \A c \in BuiltRatios :
            LeftSum(c) # Failed /\ RightSum(c) # Failed => LeftSum(c) = RightSum(c)

\* C22 witness: a sum a + b of two non-zero ratios was built, some c gives
\* two equal sums of three non-zero terms, and some c makes exactly one of
\* the two groupings overflow.
C22_Witness ==
    /\ rop = "add"
    /\ OperandsBuilt
    /\ ra.num # 0
    /\ rb.num # 0
    /\ rres # Failed
    /\ \E c \in BuiltRatios :
          c.num # 0 /\ c.den # 1 /\ LeftSum(c) # Failed /\ LeftSum(c) = RightSum(c)
    /\ \E c \in BuiltRatios : (LeftSum(c) = Failed) # (RightSum(c) = Failed)

\* C23: dividing a ratio by a zero ratio, inverting a zero ratio, raising a
\* zero ratio to a negative power and writing a ratio<n, 0> each fail to
\* build: none of them yields a ratio.
C23_ZeroFailsStatically ==
    /\ rop = "divide" /\ OperandsBuilt /\ rb.num = 0 => rres = Failed
    /\ rop = "inverse" /\ OperandsBuilt /\ ra.num = 0 => rres = Failed
    /\ rop = "power" /\ OperandsBuilt /\ ra.num = 0 /\ rexp < 0 => rres = Failed
    /\ rop = "ratio" /\ rden = 0 => rres = Failed

\* C23 witness: a non-zero ratio was divided by the zero ratio and the
\* quotient did not build.
C23_Witness ==
    /\ rop = "divide"
    /\ OperandsBuilt
    /\ ra.num # 0
    /\ rb.num = 0
    /\ rres = Failed

---------------------------------------------------------------------------
(* Claims about the ratio comparisons (SpecOrder)                          *)

\* a < b as exact rationals (the denominators are positive).
ExactLess(a, b) == a.num * b.den < b.num * a.den

\* The two products a.num * (b.den / g) and b.num * (a.den / g) of
\* ratio_less(a, b), as mathematical integers.
CrossProducts(a, b) ==
    {a.num * (b.den \div ExactGcd(a.den, b.den)),
     b.num * (a.den \div ExactGcd(a.den, b.den))}

ProductsFit(a, b) == \A x \in CrossProducts(a, b) : Representable(x)

\* What the comparison evaluated last is meant to yield.
ExactComparison ==
    CASE rop = "less"          -> ExactLess(ra, rb)
      [] rop = "less_equal"    -> ExactLess(ra, rb) \/ SameRational(ra, rb)
      [] rop = "greater"       -> ExactLess(rb, ra)
      [] rop = "greater_equal" -> ExactLess(rb, ra) \/ SameRational(ra, rb)
      [] rop = "equal"         -> SameRational(ra, rb)
      [] rop = "not_equal"     -> ~SameRational(ra, rb)

\* How many of a < b, a == b and a > b the traits report as true.
HoldingOf(a, b) ==
    Cardinality({t \in {"less", "equal", "greater"} :
        \/ t = "less" /\ ratio_less_v(a, b) = Built(TRUE)
        \/ t = "equal" /\ ratio_equal_v(a, b)
        \/ t = "greater" /\ ratio_greater_v(a, b) = Built(TRUE)})

\* C24 as stated: for all ratios a and b, ratio_less(a, b) is true exactly
\* when a < b as exact rationals, less-equal, greater and greater-equal
\* agree with it, and exactly one of a < b, a == b, a > b holds.
C24_RatioLessIsExactOrder ==
    rop # "operand" =>
        /\ rres = Built(ExactComparison)
        /\ HoldingOf(ra, rb) = 1

\* C24 amended: for all ratios a and b whose two cross products
\* a.num * (b.den / g) and b.num * (a.den / g) lie in the range of the
\* integer type, ratio_less(a, b) is true exactly when a < b as exact
\* rationals, less-equal, greater and greater-equal agree with it and
\* exactly one of a < b, a == b, a > b holds; when a product leaves the
\* range the four order traits are ill-formed.
C24_RatioLessIsExactOrderWhenProductsFit ==
    rop # "operand" =>
        IF ProductsFit(ra, rb) \/ rop \in {"equal", "not_equal"}
        THEN /\ rres = Built(ExactComparison)
             /\ ProductsFit(ra, rb) => HoldingOf(ra, rb) = 1
        ELSE rres = IllFormed

\* C24 witness: ratio_less was evaluated on two ratios of different
\* denominators, with a of the greater numerator and the smaller value,
\* and was true.
C24_Witness ==
    /\ rop = "less"
    /\ ra.num > rb.num
    /\ rb.num > 0
    /\ ra.den # rb.den
    /\ rres = Built(TRUE)

---------------------------------------------------------------------------
(* Claims about the overflow predicates (SpecInt)                          *)

\* C30: for all integers a and b of the type, mul_overflow(a, b) is true
\* exactly when the mathematical product a * b lies outside the range of
\* the type and add_overflow(a, b) exactly when the sum a + b does, and no
\* division or subtraction inside the predicates overflows (the call is a
\* constant expression for every a and b, min_val and -1 included).
C30_OverflowPredicatesExact ==
    /\ rop = "mul_overflow" => rres = Built(~Representable(rnum * rden))
    /\ rop = "add_overflow" => rres = Built(~Representable(rnum + rden))

\* C30 witness: mul_overflow was evaluated on min_val and -1 and was true.
C30_Witness ==
    /\ rop = "mul_overflow"
    /\ rnum = min_val
    /\ rden = -1
    /\ rres = Built(TRUE)


---------------------------------------------------------------------------
(* Claims about integer representations (SpecQty)                          *)

\* The operand q with its value held in a double.
AsFloating(q) == quantity(q.ref, "double", q.value_)

\* The expression written by the step op, over the operands a and b.
Expression(op, a, b) ==
    CASE op = "plus" -> operator_plus(a, b)
      [] op = "minus" -> operator_minus(a, b)
      [] op = "equal" -> operator_equal(a, b)
      [] op = "spaceship" -> operator_spaceship(a, b)
      [] op = "convert" -> converting_constructor(a.ref, a.rep, b)
      [] op = "in" -> in(a, get_unit(b.ref))

\* An expression that rescales: in(), or one over two different references.
Rescaling ==
    /\ qop \in {"plus", "minus", "equal", "spaceship", "convert", "in"}
    /\ qop = "in" \/ q1.ref # q2.ref

\* C28: every conversion and mixed-reference operation accepted for
\* floating-point representations (in(), implicit conversion between
\* references, and +, -, ==, <=> between different compatible references)
\* is well-formed when the representations are an integer type, and then
\* yields the exactly rescaled value whenever that value is an integer.
C28_IntegerRepsRescale ==
    LET floating == Expression(IF Rescaling THEN qop ELSE "plus",
                               AsFloating(q1), AsFloating(q2))
    IN  (/\ Rescaling
         /\ q1.rep = "int"
         /\ q2.rep = "int"
         /\ floating.status = "ok") =>
            /\ qres.status = "ok"
            /\ qop \in {"equal", "spaceship"} => qres.result = floating.result
            /\ (qop \notin {"equal", "spaceship"} /\ floating.result.value_.d = 1) =>
                  /\ qres.result.ref = floating.result.ref
                  /\ qres.result.rep = "int"
                  /\ qres.result.value_ = floating.result.value_


---------------------------------------------------------------------------
(* Claims about products and compound assignments (SpecProduct)            *)

ScalarSteps == {"times", "times_reversed", "over", "times_assign", "over_assign"}

\* q.value * s, respectively q.value / s, held in the representation of q.
ScaledBy(op, q, s) ==
    IF op \in {"over", "over_assign"}
    THEN static_cast(q.rep, Real(q.value_.n * s.d, q.value_.d * s.n))
    ELSE static_cast(q.rep, RealMul(q.value_, s))

\* C25: for a quantity q of reference R and a scalar s accepted by the
\* operators, q * s, s * q, q / s, q *= s and q /= s yield a quantity of
\* reference R whose raw value is q.value * s, respectively q.value / s.
C25_ScalarScalesRawValue ==
    [][(/\ qop' \in ScalarSteps
        /\ ~Quantity(q2)
        /\ qres'.status # "no_match"
        /\ qop' \in {"over", "over_assign"} => q2.number.n # 0) =>
            /\ qres'.status = "ok"
            /\ qres'.result.ref = q1.ref
            /\ qres'.result.value_ = ScaledBy(qop', q1, q2.number)]_vars

\* C26: no operation mutates a value after its construction: every step
\* leaves both of its operands as they were.
C26_OperandsNeverMutated == [][q1' = q1 /\ q2' = q2]_vars

\* Both products are built: the magnitude of the product of the units is
\* within ratio_int_t.
ProductsBuilt ==
    /\ Quantity(q2)
    /\ operator_multiply(q1, q2).status = "ok"
    /\ operator_multiply(q2, q1).status = "ok"

\* C29: for quantities a and b, a * b and b * a have equal raw values and
\* compatible references, so that a * b == b * a and (a * b) + (b * a)
\* type-check.
C29_ProductCommutesUpToCompatibility ==
    /\ (qop = "times" /\ ProductsBuilt) =>
          LET compatible(ab, ba) ==
                  /\ ab.value_ = ba.value_
                  /\ references_compatible_v(ab.ref, ba.ref)
          IN  compatible(qres.result, operator_multiply(q2, q1).result)
    /\ (qop \in {"products_equal", "products_sum"} /\ ProductsBuilt) =>
          qres.status # "no_match"


---------------------------------------------------------------------------
(* Claims about the object layout (SpecPoint)                              *)

\* The operands of the expression and the value it yields.
ObjectsAtHand == {pa, pb} \cup (IF pres.status = "ok" THEN {pres.result} ELSE {})

\* C27: the reference and the origin have no runtime representation: for
\* every reference, origin and representation, a quantity and a point
\* have the size of the representation.
C27_SizeOfRepresentation ==
    \A object \in ObjectsAtHand : size_of(object) = size_of_rep(object.rep)

\* C27 witness: an expression over a point and a quantity of different
\* representations has yielded a point, and another a quantity.
C27_Witness ==
    /\ pres.status = "ok"
    /\ is_quantity_point(pa)
    /\ (is_quantity_point(pb) /\ pop = "minus") \/ (Quantity(pb) /\ pop = "plus")
    /\ pa.rep = "double"
    /\ pb.rep # "double"
    /\ size_of(pres.result) # size_of(pb)

====
